---- MODULE Spec2Model ----
(***************************************************************************)
(* A model of the Jodi matchmaking bot: the confidence merge of            *)
(* JodiDB.upsert_user_signals (db_postgres_v2.py) and the contextual       *)
(* scorer ContextualMatcher (matching.py).                                 *)
(*                                                                         *)
(* Numbers.  Confidences are hundredths (0.70 is 70).  Preference weights  *)
(* and scores are thousandths (weight 0.5 is 500, 30 points are 30000), so *)
(* that 15 * weight is exact.                                              *)
(***************************************************************************)
EXTENDS Integers, Sequences, FiniteSets, TLC

VARIABLES
    stored,       \* user_signals.<category> of one user: field -> entry
    last_batch,   \* the `signals` argument of the last upsert_user_signals
    history,      \* the batches merged so far, oldest first (recorded by SpecHistory only)
    pc,           \* concurrent callers: position of each caller in upsert_user_signals
    call_batch,   \* concurrent callers: the `signals` argument of each caller
    current,      \* concurrent callers: the local `current_signals` of each caller
    start_map,    \* concurrent callers: the stored map before either call began
    profile_a,    \* scorer: first argument of calculate_match_score
    profile_b,    \* scorer: second argument of calculate_match_score
    profile_c,    \* scorer: the second candidate of the Canberra comparison
    result,       \* scorer: what calculate_match_score(profile_a, profile_b) returned
    result_c,     \* scorer: what calculate_match_score(profile_a, profile_c) returned
    user_profile, \* find_matches: the querying profile
    all_profiles, \* find_matches: the candidate list
    min_score,    \* find_matches: the score threshold, in thousandths
    limit,        \* find_matches: the maximum number of results
    matches,      \* find_matches: what it returned
    stored_values,\* user_signals.values of the same user: field -> entry
    user,         \* the user's row of the users table: column -> value
    last_category,\* the `category` argument of the last upsert_user_signals
    _store,       \* controller service: session_id -> ConversationState
    request,      \* controller service: the last request received
    response,     \* controller service: what the last request returned
    FEATURE_ROLLOUT_PCT, \* controller service: settings.FEATURE_ROLLOUT_PCT
    rollout_call, \* feature flag: the last in_rollout call and its answer
    rollout_prev, \* feature flag: the in_rollout call before that one
    bot_mode,     \* bot: telegram_id -> "unknown", "onboarding" or "conversational"
    completed,    \* bot: telegram_id -> the profile fields the database holds
    tier_progress,\* bot: telegram_id -> the user's tier_progress row, if any
    handled,      \* bot: the last message handle_message processed and what it sent
    handoffs,     \* bot: telegram_id -> congratulations sent so far
    conversation_state, \* onboarding: the user's onboarding state, or NoUser before /start
    shown,        \* onboarding: the screen the chat displays, with its live buttons
    last_update   \* onboarding: the last update handled and how its handler ended

vars == <<stored, last_batch, history, pc, call_batch, current,
          start_map, profile_a, profile_b, profile_c, result, result_c,
          user_profile, all_profiles, min_score, limit, matches, stored_values, user,
          last_category, _store, request, response,
          FEATURE_ROLLOUT_PCT, rollout_call, rollout_prev,
          bot_mode, completed, tier_progress, handled, handoffs,
          conversation_state, shown, last_update>>

mergeVars == <<stored, last_batch, history>>
concVars == <<pc, call_batch, current, start_map>>
scoreVars == <<profile_a, profile_b, profile_c, result, result_c>>
findVars == <<user_profile, all_profiles, min_score, limit, matches>>
rowVars == <<stored_values, user, last_category>>
ctrlVars == <<_store, request, response>>
flagVars == <<FEATURE_ROLLOUT_PCT, rollout_call, rollout_prev>>
botVars == <<bot_mode, completed, tier_progress, handled, handoffs>>
onbVars == <<conversation_state, shown, last_update>>
restVars == <<ctrlVars, flagVars, botVars, onbVars>>
coreVars == <<mergeVars, concVars, scoreVars, findVars, rowVars>>
otherVars == <<findVars, rowVars, restVars>>

\* The empty dict {}.
EmptyDict == <<>>

(***************************************************************************)
(* Signal entries and batches.                                             *)
(***************************************************************************)

Fields == {"work_style", "diet"}
Values == {"Startup", "Corporate"}
\* below the acceptance threshold, at it, above it
Confidences == {50, 70, 85}

\* conversation_v2.py CONFIDENCE_THRESHOLDS['store_minimum'] = 0.70
StoreMinimum == 70

\* A signal entry is a dict; a malformed one lacks 'value' or 'confidence'.
MkEntry(hasValue, v, hasConf, c) ==
    [k \in (IF hasValue THEN {"value"} ELSE {}) \cup (IF hasConf THEN {"confidence"} ELSE {})
       |-> IF k = "value" THEN v ELSE c]

WellFormedEntries ==
    {MkEntry(TRUE, v, TRUE, c) : v \in Values, c \in Confidences}

\* An entry without 'confidence', one without 'value', one without either.
MalformedEntries ==
    {MkEntry(TRUE, "Startup", FALSE, 0), MkEntry(FALSE, "", TRUE, 85),
     MkEntry(FALSE, "", FALSE, 0)}

Entries == WellFormedEntries \cup MalformedEntries

\* All dicts field -> entry over the given entries.
DictsOver(entries) == UNION {[S -> entries] : S \in SUBSET Fields}

Batches == DictsOver(Entries)

\* signal_data.get('confidence', 0.0)
GetConfidence(signal_data) ==
    IF "confidence" \in DOMAIN signal_data THEN signal_data["confidence"] ELSE 0

\* current_signals[field] = signal_data
SetItem(d, key, val) ==
    [k \in DOMAIN d \cup {key} |-> IF k = key THEN val ELSE d[k]]

\* The body of the merge loop for one (field, signal_data) item.
MergeFieldTies(current_signals, field, signal_data) ==
    IF field \in DOMAIN current_signals
    THEN IF GetConfidence(signal_data) >= GetConfidence(current_signals[field])
         THEN SetItem(current_signals, field, signal_data)
         ELSE current_signals
    ELSE SetItem(current_signals, field, signal_data)

MergeFieldFiltered(current_signals, field, signal_data) ==
    IF GetConfidence(signal_data) < StoreMinimum \/ "value" \notin DOMAIN signal_data
    THEN current_signals
    ELSE IF field \in DOMAIN current_signals
         THEN IF GetConfidence(signal_data) > GetConfidence(current_signals[field])
              THEN SetItem(current_signals, field, signal_data)
              ELSE current_signals
         ELSE SetItem(current_signals, field, signal_data)

MergeFieldOverwrite(current_signals, field, signal_data) ==
    SetItem(current_signals, field, signal_data)

MergeField(current_signals, field, signal_data) ==
    LET new_confidence == GetConfidence(signal_data) IN
    IF field \in DOMAIN current_signals
    THEN LET existing_confidence == GetConfidence(current_signals[field]) IN
         IF new_confidence > existing_confidence
         THEN SetItem(current_signals, field, signal_data)
         ELSE current_signals
    ELSE SetItem(current_signals, field, signal_data)

\* for field, signal_data in signals.items(): ...
RECURSIVE MergeLoop(_, _, _)
MergeLoop(current_signals, signals, todo) ==
    IF todo = {} THEN current_signals
    ELSE LET field == CHOOSE f \in todo : TRUE IN
         MergeLoop(MergeField(current_signals, field, signals[field]),
                   signals, todo \ {field})

MergeSignals(current_signals, signals) ==
    MergeLoop(current_signals, signals, DOMAIN signals)

(***************************************************************************)
(* Sequential merges: one upsert_user_signals call per step.               *)
(***************************************************************************)

Procs == {"p1", "p2"}

ConcIdle ==
    /\ pc = [p \in Procs |-> "idle"]
    /\ call_batch = [p \in Procs |-> EmptyDict]
    /\ current = [p \in Procs |-> EmptyDict]
    /\ start_map = EmptyDict

ScoreIdle ==
    /\ profile_a = EmptyDict
    /\ profile_b = EmptyDict
    /\ profile_c = EmptyDict
    /\ result = EmptyDict
    /\ result_c = EmptyDict

\* No user_signals row yet: `existing` is None and current_signals starts as {}.
MergeIdle ==
    /\ stored = EmptyDict
    /\ last_batch = EmptyDict
    /\ history = <<>>

\* find_matches not called.
FindIdle ==
    /\ user_profile = EmptyDict
    /\ all_profiles = <<>>
    /\ min_score = 0
    /\ limit = 0
    /\ matches = <<>>

\* A users row as create_user leaves it and no `values` signals.
RowIdle ==
    /\ stored_values = EmptyDict
    /\ user = EmptyDict
    /\ last_category = "lifestyle"

\* The controller service as the module leaves it: _store = {}.
CtrlIdle ==
    /\ _store = EmptyDict
    /\ request = EmptyDict
    /\ response = EmptyDict

\* FEATURE_ROLLOUT_PCT as config.py reads it from an unset environment.
FlagIdle ==
    /\ FEATURE_ROLLOUT_PCT = 0
    /\ rollout_call = EmptyDict
    /\ rollout_prev = EmptyDict

BotUsers == {101, 102}

\* An empty database: no user has written to the bot yet.
BotIdle ==
    /\ bot_mode = [u \in BotUsers |-> "unknown"]
    /\ completed = [u \in BotUsers |-> {}]
    /\ tier_progress = EmptyDict
    /\ handled = EmptyDict
    /\ handoffs = [u \in BotUsers |-> 0]

NoUser == [phase |-> "NoUser"]

\* Nobody has sent /start yet: the users table has no row, the chat is empty.
OnbIdle ==
    /\ conversation_state = NoUser
    /\ shown = [kind |-> "nothing", screen |-> 0]
    /\ last_update = EmptyDict

RestIdle == CtrlIdle /\ FlagIdle /\ BotIdle /\ OnbIdle

OtherIdle == FindIdle /\ RowIdle /\ RestIdle

Init == MergeIdle /\ ConcIdle /\ ScoreIdle /\ OtherIdle

\* upsert_user_signals(telegram_id, category, signals), read to write in one step
UpsertUserSignals(signals) ==
    /\ stored' = MergeSignals(stored, signals)
    /\ last_batch' = signals
    /\ UNCHANGED <<history, concVars, scoreVars, otherVars>>

Next == \E signals \in Batches : UpsertUserSignals(signals)

Spec == Init /\ [][Next]_vars

(***************************************************************************)
(* The same merges with the batches recorded, for claims about the whole   *)
(* sequence of batches a field has seen.                                   *)
(***************************************************************************)

MaxBatches == 3

HistoryEntries == {MkEntry(TRUE, v, TRUE, c) : v \in Values, c \in {70, 85}}

HistoryBatches == DictsOver(HistoryEntries)

UpsertRecorded(signals) ==
    /\ Len(history) < MaxBatches
    /\ stored' = MergeSignals(stored, signals)
    /\ last_batch' = signals
    /\ history' = Append(history, signals)
    /\ UNCHANGED <<concVars, scoreVars, otherVars>>

NextHistory == \E signals \in HistoryBatches : UpsertRecorded(signals)

SpecHistory == Init /\ [][NextHistory]_vars

\* The positions of the batches that named field f.
Carriers(f) == {i \in 1..Len(history) : f \in DOMAIN history[i]}

\* The positions of the batches that carried the maximum confidence seen for f.
MaxCarriers(f) ==
    {i \in Carriers(f) :
        \A j \in Carriers(f) : GetConfidence(history[j][f]) <= GetConfidence(history[i][f])}

EarliestMax(f) == CHOOSE i \in MaxCarriers(f) : \A j \in MaxCarriers(f) : i <= j
LatestMax(f) == CHOOSE i \in MaxCarriers(f) : \A j \in MaxCarriers(f) : j <= i

(***************************************************************************)
(* Two concurrent upsert_user_signals calls on one user and category.  The *)
(* connection is in autocommit mode, so the SELECT and the INSERT .. ON    *)
(* CONFLICT DO UPDATE of a call are two separate statements.               *)
(***************************************************************************)

ConcEntries == HistoryEntries

ConcBatches == DictsOver(ConcEntries)

InitConcurrent ==
    /\ stored \in ConcBatches
    /\ start_map = stored
    /\ last_batch = EmptyDict
    /\ history = <<>>
    /\ pc = [p \in Procs |-> "idle"]
    /\ call_batch = [p \in Procs |-> EmptyDict]
    /\ current = [p \in Procs |-> EmptyDict]
    /\ ScoreIdle
    /\ OtherIdle

\* SELECT <category> FROM user_signals, then the merge loop on the local copy
ReadAndMerge(p, signals) ==
    /\ pc[p] = "idle"
    /\ call_batch' = [call_batch EXCEPT ![p] = signals]
    /\ current' = [current EXCEPT ![p] = MergeSignals(stored, signals)]
    /\ pc' = [pc EXCEPT ![p] = "merged"]
    /\ UNCHANGED <<stored, last_batch, history, start_map, scoreVars, otherVars>>

\* INSERT .. ON CONFLICT (user_id) DO UPDATE SET <category> = current_signals
WriteBack(p) ==
    /\ pc[p] = "merged"
    /\ stored' = current[p]
    /\ last_batch' = call_batch[p]
    /\ pc' = [pc EXCEPT ![p] = "done"]
    /\ UNCHANGED <<history, call_batch, current, start_map, scoreVars, otherVars>>

NextConcurrent ==
    \E p \in Procs :
        \/ \E signals \in ConcBatches : ReadAndMerge(p, signals)
        \/ WriteBack(p)

SpecConcurrent == InitConcurrent /\ [][NextConcurrent]_vars

(***************************************************************************)
(* Claims about the merge.                                                 *)
(***************************************************************************)

HasConfidence(e) == "confidence" \in DOMAIN e
HasValue(e) == "value" \in DOMAIN e
Malformed(e) == ~HasConfidence(e) \/ ~HasValue(e)

\* What the merge rule makes of field f, given the map before and the batch.
RuleResult(before, signals, f) ==
    IF f \notin DOMAIN before THEN signals[f]
    ELSE IF GetConfidence(signals[f]) > GetConfidence(before[f]) THEN signals[f]
    ELSE before[f]

\* C1: every field of the incoming batch is inserted when it was not stored,
\* and otherwise replaces the stored entry if and only if its confidence is
\* strictly greater; at equal confidence the stored entry is kept.
C1_MergeRule ==
    [][\A f \in DOMAIN last_batch' :
          /\ f \in DOMAIN stored'
          /\ f \notin DOMAIN stored => stored'[f] = last_batch'[f]
          /\ f \in DOMAIN stored =>
                /\ GetConfidence(last_batch'[f]) > GetConfidence(stored[f])
                      => stored'[f] = last_batch'[f]
                /\ GetConfidence(last_batch'[f]) <= GetConfidence(stored[f])
                      => stored'[f] = stored[f]]_vars

\* C1 witness: a batch restated a stored field at the same confidence with a
\* different value, and the stored value was kept.
C1_Witness ==
    \E f \in DOMAIN last_batch \cap DOMAIN stored :
        /\ HasConfidence(last_batch[f]) /\ HasConfidence(stored[f])
        /\ HasValue(last_batch[f]) /\ HasValue(stored[f])
        /\ last_batch[f]["confidence"] = stored[f]["confidence"]
        /\ last_batch[f]["value"] # stored[f]["value"]

\* C2: from one merge to the next, no stored field disappears and no stored
\* field's confidence decreases.
C2_ConfidenceNonDecreasing ==
    [][\A f \in DOMAIN stored :
          /\ f \in DOMAIN stored'
          /\ GetConfidence(stored'[f]) >= GetConfidence(stored[f])]_vars

\* C2 witness: the last batch carried a field at a lower confidence than the
\* one that stays stored.
C2_Witness ==
    \E f \in DOMAIN last_batch \cap DOMAIN stored :
        /\ HasConfidence(last_batch[f])
        /\ last_batch[f]["confidence"] < GetConfidence(stored[f])

\* C3 as stated: the stored value of a field is the value of the most recent
\* among the batches that carried the maximum confidence seen for it.
C3_TiesToMostRecent ==
    \A f \in DOMAIN stored :
        Carriers(f) # {} => stored[f]["value"] = history[LatestMax(f)][f]["value"]

\* C3 amended: the stored entry of a field is the entry of the earliest among
\* the batches that carried the maximum confidence seen for it.
C3_TiesToEarliest ==
    /\ DOMAIN stored = {f \in Fields : Carriers(f) # {}}
    /\ \A f \in DOMAIN stored : stored[f] = history[EarliestMax(f)][f]

\* C3 witness: two batches carried the maximum confidence of a field with
\* different values, and a lower-confidence batch was seen as well.
C3_Witness ==
    \E f \in DOMAIN stored :
        /\ EarliestMax(f) # LatestMax(f)
        /\ history[EarliestMax(f)][f]["value"] # history[LatestMax(f)][f]["value"]
        /\ Carriers(f) # MaxCarriers(f)
        /\ stored[f] = history[EarliestMax(f)][f]

\* Both calls have returned.
BothDone == \A p \in Procs : pc[p] = "done"

\* C4: whatever the interleaving of two calls, the final map is the result
\* of the two merges run one after the other in some order.
C4_Serializable ==
    BothDone =>
        \/ stored = MergeSignals(MergeSignals(start_map, call_batch["p1"]), call_batch["p2"])
        \/ stored = MergeSignals(MergeSignals(start_map, call_batch["p2"]), call_batch["p1"])

\* C5 as stated: an incoming entry with a confidence below 0.70 is neither
\* inserted nor used to replace the stored entry.
C5_SubThresholdRejected ==
    [][\A f \in DOMAIN last_batch' :
          (HasConfidence(last_batch'[f]) /\ last_batch'[f]["confidence"] < StoreMinimum)
            => /\ f \in DOMAIN stored' <=> f \in DOMAIN stored
               /\ f \in DOMAIN stored => stored'[f] = stored[f]]_vars

\* C5 amended: the merge applies no threshold; an incoming entry with a
\* confidence below 0.70 is inserted when the field is not stored and
\* replaces the stored entry when its confidence is strictly greater.
C5_SubThresholdMerged ==
    [][\A f \in DOMAIN last_batch' :
          (HasConfidence(last_batch'[f]) /\ last_batch'[f]["confidence"] < StoreMinimum)
            => /\ f \in DOMAIN stored'
               /\ f \notin DOMAIN stored => stored'[f] = last_batch'[f]
               /\ (f \in DOMAIN stored
                     /\ last_batch'[f]["confidence"] > GetConfidence(stored[f]))
                    => stored'[f] = last_batch'[f]]_vars

\* C5 witness: an entry with a confidence below 0.70 is stored.
C5_Witness ==
    \E f \in DOMAIN last_batch \cap DOMAIN stored :
        /\ HasConfidence(last_batch[f])
        /\ last_batch[f]["confidence"] < StoreMinimum
        /\ stored[f] = last_batch[f]

\* C6 as stated: an entry that lacks `confidence` or `value` leaves the
\* stored map unchanged for its field.
C6_MalformedSkipped ==
    [][\A f \in DOMAIN last_batch' :
          Malformed(last_batch'[f])
            => /\ f \in DOMAIN stored' <=> f \in DOMAIN stored
               /\ f \in DOMAIN stored => stored'[f] = stored[f]]_vars

\* C6 amended: an entry that lacks `confidence` is merged with confidence
\* 0.0 and one that lacks `value` by the confidence it carries: inserted when
\* the field is not stored, replacing the stored entry only on a strictly
\* greater confidence; the other entries of the batch are merged by the
\* same rule and the call completes.
C6_MalformedMerged ==
    [][(\E f \in DOMAIN last_batch' : Malformed(last_batch'[f]))
         => \A g \in DOMAIN last_batch' :
              /\ g \in DOMAIN stored'
              /\ stored'[g] = RuleResult(stored, last_batch', g)
              /\ (~HasConfidence(last_batch'[g]) /\ g \in DOMAIN stored)
                    => stored'[g] = stored[g]]_vars

\* C6 witness: a batch held an entry without confidence and a well-formed
\* entry, and both are stored.
C6_Witness ==
    \E f, g \in DOMAIN last_batch \cap DOMAIN stored :
        /\ f # g
        /\ ~HasConfidence(last_batch[f])
        /\ stored[f] = last_batch[f]
        /\ ~Malformed(last_batch[g])
        /\ stored[g] = last_batch[g]

(***************************************************************************)
(* Python values as the scorer meets them.  A dict is a function on the    *)
(* keys it holds: a missing key is a key outside its DOMAIN, a key holding *)
(* None is a key mapped to PyNone.                                         *)
(***************************************************************************)

PyNone == [t |-> "none"]
Str(s) == [t |-> "str", s |-> s]
Num(n) == [t |-> "num", n |-> n]
Bool(b) == [t |-> "bool", b |-> b]
Dict(d) == [t |-> "dict", d |-> d]
List(items) == [t |-> "list", items |-> items]

IsStr(v) == v.t = "str"
IsNum(v) == v.t = "num"
IsDict(v) == v.t = "dict"
IsList(v) == v.t = "list"

\* bool(v)
Truthy(v) ==
    CASE v.t = "none" -> FALSE
      [] v.t = "str" -> v.s # ""
      [] v.t = "num" -> v.n # 0
      [] v.t = "bool" -> v.b
      [] v.t = "dict" -> DOMAIN v.d # {}
      [] v.t = "list" -> v.items # {}

\* d.get(key, default) on a dict d
Get(v, key, default) == IF key \in DOMAIN v.d THEN v.d[key] ELSE default

\* str.lower() on the strings of the model
Lower(s) ==
    CASE s = "Sydney, Australia" -> "sydney, australia"
      [] s = "Parramatta" -> "parramatta"
      [] s = "Canberra, Australia" -> "canberra, australia"
      [] s = "Delhi, India" -> "delhi, india"
      [] s = "Software Engineer" -> "software engineer"
      [] s = "Consultant" -> "consultant"
      [] s = "Doctor" -> "doctor"
      [] s = "Tech Lead" -> "tech lead"
      [] s = "Artist" -> "artist"
      [] s = "Mentioned Diaspora loneliness" -> "mentioned diaspora loneliness"
      [] s = "Family-oriented" -> "family-oriented"
      [] s = "Intellectually curious" -> "intellectually curious"
      [] OTHER -> s

\* `word in text` (substring) for the lowercased strings of the model: the
\* words of the scorer's lookup tables and keywords that occur in each.
WordsIn(text) ==
    CASE text = "sydney, australia" -> {"sydney"}
      [] text = "parramatta" -> {"parramatta"}
      [] text = "canberra, australia" -> {"canberra"}
      [] text = "delhi, india" -> {"delhi"}
      [] text = "software engineer" -> {"engineer", "software"}
      [] text = "consultant" -> {"consultant"}
      [] text = "doctor" -> {"doctor"}
      [] text = "tech lead" -> {"tech"}
      [] text = "artist" -> {}
      [] text = "mentioned diaspora loneliness" -> {"diaspora"}
      [] text = "family-oriented" -> {"family"}
      [] text = "intellectually curious" -> {"intellectual", "curious"}
      [] OTHER -> {}

AnyIn(words, text) == \E w \in words : w \in WordsIn(text)

\* round(x, 2) on thousandths: to the nearest hundredth, halves to even
Round2(x) ==
    LET q == x \div 10
        r == x % 10
    IN  IF r < 5 THEN 10 * q
        ELSE IF r > 5 THEN 10 * (q + 1)
        ELSE IF q % 2 = 0 THEN 10 * q ELSE 10 * (q + 1)

Max(a, b) == IF a >= b THEN a ELSE b
Abs(n) == IF n < 0 THEN -n ELSE n

\* What a sub-score returns: (score, breakdown), or an exception.
Returned(score, breakdown) == [raised |-> FALSE, score |-> score, breakdown |-> breakdown]
Raised == [raised |-> TRUE, score |-> 0, breakdown |-> EmptyDict]

\* A breakdown dict from the lines that were added.
Lines(pairs) == [k \in {pr[1] : pr \in pairs} |-> (CHOOSE pr \in pairs : pr[1] = k)[2]]

(***************************************************************************)
(* matching.py: lookup tables.                                             *)
(***************************************************************************)

metro_areas ==
    {{"sydney", "parramatta", "bondi", "manly"},
     {"melbourne", "carlton", "richmond", "st kilda"},
     {"brisbane", "gold coast", "sunshine coast"},
     {"delhi", "new delhi", "gurgaon", "noida", "ghaziabad"},
     {"mumbai", "navi mumbai", "thane"}}

countries ==
    {{"sydney", "melbourne", "brisbane", "canberra", "adelaide", "perth"},
     {"delhi", "mumbai", "bangalore", "ahmedabad", "pune", "hyderabad"},
     {"new york", "san francisco", "los angeles", "chicago", "boston"},
     {"london", "manchester", "birmingham", "edinburgh"}}

occupation_groups ==
    {{"engineer", "developer", "software", "tech", "programmer"},
     {"doctor", "physician", "surgeon", "medical"},
     {"consultant", "analyst", "manager"},
     {"teacher", "professor", "educator"},
     {"accountant", "finance", "banking"}}

_same_metro_area(loc_a, loc_b) ==
    \E suburbs \in metro_areas : AnyIn(suburbs, loc_a) /\ AnyIn(suburbs, loc_b)

_same_country(loc_a, loc_b) ==
    \E country_cities \in countries : AnyIn(country_cities, loc_a) /\ AnyIn(country_cities, loc_b)

\* A group test on the occupations as written, without lowercasing them.
SimilarOccupationAsWritten(occ_a, occ_b) ==
    \E group \in occupation_groups : AnyIn(group, occ_a) /\ AnyIn(group, occ_b)

_similar_occupation(occ_a, occ_b) ==
    \E group \in occupation_groups : AnyIn(group, Lower(occ_a)) /\ AnyIn(group, Lower(occ_b))

(***************************************************************************)
(* matching.py: the five sub-scores.  Each takes the two demographics      *)
(* dicts and the two preferences dicts as calculate_match_score read them  *)
(* and returns Returned(score, breakdown), or Raised where the Python      *)
(* raises (a method call on None, an order comparison with None).          *)
(***************************************************************************)

PyRaise == [t |-> "raise"]

\* pref.get(key, {}).get(inner, default); PyRaise when pref[key] is no dict
GetIn(pref, key, inner, default) ==
    LET entry == Get(pref, key, Dict(EmptyDict)) IN
    IF IsDict(entry) THEN Get(entry, inner, default) ELSE PyRaise

\* A scorer without the compensation rule: shared caste and language earn
\* nothing towards the location sub-score.
NoCulturalBonus(demo_a, demo_b) == 0

\* The cultural compensation of _score_location (0 when nothing matches).
CulturalBonus(demo_a, demo_b) ==
    LET caste_a == Get(demo_a, "caste", Str(""))
        caste_b == Get(demo_b, "caste", Str(""))
        lang_a == Get(demo_a, "language", Str(""))
        lang_b == Get(demo_b, "language", Str(""))
    IN  (IF Truthy(caste_a) /\ caste_a = caste_b THEN 10000 ELSE 0)
          + (IF Truthy(lang_a) /\ lang_a = lang_b THEN 10000 ELSE 0)

\* A compensation rule that asks for cultural_weight HIGH on both sides.
DifferentCitiesBothHigh(loc_a, loc_b, demo_a, demo_b, pref_a, pref_b) ==
    IF ~IsDict(pref_a) \/ ~IsDict(pref_b) THEN Raised
    ELSE
    LET location_flex_a == GetIn(pref_a, "location_proximity", "weight", Num(500))
        location_flex_b == GetIn(pref_b, "location_proximity", "weight", Num(500))
    IN
    IF ~IsNum(location_flex_a) \/ ~IsNum(location_flex_b) THEN Raised
    ELSE
    LET flex == IF location_flex_a.n < 600 /\ location_flex_b.n < 600
                THEN {<<"both_flexible", 15000>>}
                ELSE IF location_flex_a.n < 600 \/ location_flex_b.n < 600
                THEN {<<"one_flexible", 10000>>}
                ELSE {}
        country == IF _same_country(loc_a, loc_b)
                   THEN {<<"same_country", 5000>>}
                   ELSE {<<"different_country", -10000>>}
        cultural_weight_a == Get(pref_a, "cultural_weight", Str("medium"))
        cultural_weight_b == Get(pref_b, "cultural_weight", Str("medium"))
        cultural_bonus == CulturalBonus(demo_a, demo_b)
        compensation ==
            IF (cultural_weight_a = Str("HIGH") /\ cultural_weight_b = Str("HIGH"))
               /\ cultural_bonus > 0
            THEN {<<"cultural_compensation", cultural_bonus>>}
            ELSE {}
        score == (IF flex = {} THEN 0 ELSE (CHOOSE pr \in flex : TRUE)[2])
                   + (CHOOSE pr \in country : TRUE)[2]
                   + (IF compensation = {} THEN 0 ELSE cultural_bonus)
    IN  Returned(score, Lines(flex \cup country \cup compensation))

\* lines 108-150 of _score_location: the two localities differ
DifferentCities(loc_a, loc_b, demo_a, demo_b, pref_a, pref_b) ==
    IF ~IsDict(pref_a) \/ ~IsDict(pref_b) THEN Raised
    ELSE
    LET location_flex_a == GetIn(pref_a, "location_proximity", "weight", Num(500))
        location_flex_b == GetIn(pref_b, "location_proximity", "weight", Num(500))
    IN
    IF ~IsNum(location_flex_a) \/ ~IsNum(location_flex_b) THEN Raised
    ELSE
    LET flex == IF location_flex_a.n < 600 /\ location_flex_b.n < 600
                THEN {<<"both_flexible", 15000>>}
                ELSE IF location_flex_a.n < 600 \/ location_flex_b.n < 600
                THEN {<<"one_flexible", 10000>>}
                ELSE {}
        country == IF _same_country(loc_a, loc_b)
                   THEN {<<"same_country", 5000>>}
                   ELSE {<<"different_country", -10000>>}
        cultural_weight_a == Get(pref_a, "cultural_weight", Str("medium"))
        cultural_weight_b == Get(pref_b, "cultural_weight", Str("medium"))
        cultural_bonus == CulturalBonus(demo_a, demo_b)
        compensation ==
            IF (cultural_weight_a = Str("HIGH") \/ cultural_weight_b = Str("HIGH"))
               /\ cultural_bonus > 0
            THEN {<<"cultural_compensation", cultural_bonus>>}
            ELSE {}
        score == (IF flex = {} THEN 0 ELSE (CHOOSE pr \in flex : TRUE)[2])
                   + (CHOOSE pr \in country : TRUE)[2]
                   + (IF compensation = {} THEN 0 ELSE cultural_bonus)
    IN  Returned(score, Lines(flex \cup country \cup compensation))

\* lines 93-106 of _score_location without the return of the exact match
LocationFallsThrough(demo_a, demo_b, pref_a, pref_b) ==
    IF ~IsDict(demo_a) \/ ~IsDict(demo_b) THEN Raised
    ELSE
    LET la == Get(demo_a, "location", Str(""))
        lb == Get(demo_b, "location", Str(""))
    IN
    IF ~IsStr(la) \/ ~IsStr(lb) THEN Raised
    ELSE
    LET loc_a == Lower(la.s)
        loc_b == Lower(lb.s)
        rest == DifferentCities(loc_a, loc_b, demo_a, demo_b, pref_a, pref_b)
    IN
    IF loc_a = loc_b
    THEN IF rest.raised THEN Raised
         ELSE Returned(30000 + rest.score,
                       Lines({<<"same_city", 30000>>}
                               \cup {<<k, rest.breakdown[k]>> : k \in DOMAIN rest.breakdown}))
    ELSE IF _same_metro_area(loc_a, loc_b)
    THEN Returned(20000, Lines({<<"same_metro", 20000>>}))
    ELSE rest

_score_location(demo_a, demo_b, pref_a, pref_b) ==
    IF ~IsDict(demo_a) \/ ~IsDict(demo_b) THEN Raised
    ELSE
    LET la == Get(demo_a, "location", Str(""))
        lb == Get(demo_b, "location", Str(""))
    IN
    IF ~IsStr(la) \/ ~IsStr(lb) THEN Raised
    ELSE
    LET loc_a == Lower(la.s)
        loc_b == Lower(lb.s)
    IN
    IF loc_a = loc_b THEN Returned(30000, Lines({<<"same_city", 30000>>}))
    ELSE IF _same_metro_area(loc_a, loc_b)
    THEN Returned(20000, Lines({<<"same_metro", 20000>>}))
    ELSE DifferentCities(loc_a, loc_b, demo_a, demo_b, pref_a, pref_b)

\* A cultural sub-score whose caste penalty starts at a weight of 0.7 itself.
CulturalPenaltyFromThreshold(demo_a, demo_b, pref_a, pref_b) ==
    IF ~IsDict(demo_a) \/ ~IsDict(demo_b) \/ ~IsDict(pref_a) \/ ~IsDict(pref_b) THEN Raised
    ELSE
    LET caste_a == Get(demo_a, "caste", Str(""))
        caste_b == Get(demo_b, "caste", Str(""))
        caste_weight_a == GetIn(pref_a, "same_caste", "weight", Num(500))
        caste_weight_b == GetIn(pref_b, "same_caste", "weight", Num(500))
        lang_a == Get(demo_a, "language", Str(""))
        lang_b == Get(demo_b, "language", Str(""))
        lang_weight_a == GetIn(pref_a, "language", "weight", Num(500))
        lang_weight_b == GetIn(pref_b, "language", "weight", Num(500))
        use_caste == Truthy(caste_a) /\ Truthy(caste_b)
        use_lang == Truthy(lang_a) /\ Truthy(lang_b) /\ lang_a = lang_b
    IN
    IF PyRaise \in {caste_weight_a, caste_weight_b, lang_weight_a, lang_weight_b} THEN Raised
    ELSE IF use_caste /\ (~IsNum(caste_weight_a) \/ ~IsNum(caste_weight_b)) THEN Raised
    ELSE IF use_lang /\ (~IsNum(lang_weight_a) \/ ~IsNum(lang_weight_b)) THEN Raised
    ELSE
    LET caste == IF ~use_caste THEN {}
                 ELSE IF caste_a = caste_b
                 THEN {<<"same_caste", 15 * Max(caste_weight_a.n, caste_weight_b.n)>>}
                 ELSE IF caste_weight_a.n >= 700 \/ caste_weight_b.n >= 700
                 THEN {<<"different_caste_penalty", -10 * Max(caste_weight_a.n, caste_weight_b.n)>>}
                 ELSE {}
        lang == IF use_lang
                THEN {<<"same_language", 10 * Max(lang_weight_a.n, lang_weight_b.n)>>}
                ELSE {}
        score == (IF caste = {} THEN 0 ELSE (CHOOSE pr \in caste : TRUE)[2])
                   + (IF lang = {} THEN 0 ELSE (CHOOSE pr \in lang : TRUE)[2])
    IN  Returned(score, Lines({<<pr[1], Round2(pr[2])>> : pr \in caste \cup lang}))

_score_cultural(demo_a, demo_b, pref_a, pref_b) ==
    IF ~IsDict(demo_a) \/ ~IsDict(demo_b) \/ ~IsDict(pref_a) \/ ~IsDict(pref_b) THEN Raised
    ELSE
    LET caste_a == Get(demo_a, "caste", Str(""))
        caste_b == Get(demo_b, "caste", Str(""))
        caste_weight_a == GetIn(pref_a, "same_caste", "weight", Num(500))
        caste_weight_b == GetIn(pref_b, "same_caste", "weight", Num(500))
        lang_a == Get(demo_a, "language", Str(""))
        lang_b == Get(demo_b, "language", Str(""))
        lang_weight_a == GetIn(pref_a, "language", "weight", Num(500))
        lang_weight_b == GetIn(pref_b, "language", "weight", Num(500))
        use_caste == Truthy(caste_a) /\ Truthy(caste_b)
        use_lang == Truthy(lang_a) /\ Truthy(lang_b) /\ lang_a = lang_b
    IN
    IF PyRaise \in {caste_weight_a, caste_weight_b, lang_weight_a, lang_weight_b} THEN Raised
    ELSE IF use_caste /\ (~IsNum(caste_weight_a) \/ ~IsNum(caste_weight_b)) THEN Raised
    ELSE IF use_lang /\ (~IsNum(lang_weight_a) \/ ~IsNum(lang_weight_b)) THEN Raised
    ELSE
    LET caste == IF ~use_caste THEN {}
                 ELSE IF caste_a = caste_b
                 THEN {<<"same_caste", 15 * Max(caste_weight_a.n, caste_weight_b.n)>>}
                 ELSE IF caste_weight_a.n > 700 \/ caste_weight_b.n > 700
                 THEN {<<"different_caste_penalty", -10 * Max(caste_weight_a.n, caste_weight_b.n)>>}
                 ELSE {}
        lang == IF use_lang
                THEN {<<"same_language", 10 * Max(lang_weight_a.n, lang_weight_b.n)>>}
                ELSE {}
        score == (IF caste = {} THEN 0 ELSE (CHOOSE pr \in caste : TRUE)[2])
                   + (IF lang = {} THEN 0 ELSE (CHOOSE pr \in lang : TRUE)[2])
    IN  Returned(score, Lines({<<pr[1], Round2(pr[2])>> : pr \in caste \cup lang}))

\* An age sub-score whose brackets end just below 2, 5 and 8.
AgeBoundariesExclusive(demo_a, demo_b, pref_a, pref_b) ==
    IF ~IsDict(demo_a) \/ ~IsDict(demo_b) THEN Raised
    ELSE
    LET age_a == Get(demo_a, "age", PyNone)
        age_b == Get(demo_b, "age", PyNone)
    IN
    IF ~(Truthy(age_a) /\ Truthy(age_b)) THEN Returned(0, EmptyDict)
    ELSE IF ~IsNum(age_a) \/ ~IsNum(age_b) THEN Raised
    ELSE
    LET age_diff == Abs(age_a.n - age_b.n) IN
    IF age_diff < 2 THEN Returned(10000, Lines({<<"age_diff", 10000>>}))
    ELSE IF age_diff < 5 THEN Returned(7000, Lines({<<"age_diff", 7000>>}))
    ELSE IF age_diff < 8 THEN Returned(3000, Lines({<<"age_diff", 3000>>}))
    ELSE IF ~IsDict(pref_a) \/ ~IsDict(pref_b) THEN Raised
    ELSE
    LET age_flex_a == GetIn(pref_a, "age_range", "flexible", Bool(FALSE))
        age_flex_b == GetIn(pref_b, "age_range", "flexible", Bool(FALSE))
    IN
    IF age_flex_a = PyRaise \/ age_flex_b = PyRaise THEN Raised
    ELSE IF Truthy(age_flex_a) /\ Truthy(age_flex_b)
    THEN Returned(1000, Lines({<<"age_diff_flexible", 1000>>}))
    ELSE Returned(-5000, Lines({<<"age_diff_penalty", -5000>>}))

_score_age(demo_a, demo_b, pref_a, pref_b) ==
    IF ~IsDict(demo_a) \/ ~IsDict(demo_b) THEN Raised
    ELSE
    LET age_a == Get(demo_a, "age", PyNone)
        age_b == Get(demo_b, "age", PyNone)
    IN
    IF ~(Truthy(age_a) /\ Truthy(age_b)) THEN Returned(0, EmptyDict)
    ELSE IF ~IsNum(age_a) \/ ~IsNum(age_b) THEN Raised
    ELSE
    LET age_diff == Abs(age_a.n - age_b.n) IN
    IF age_diff <= 2 THEN Returned(10000, Lines({<<"age_diff", 10000>>}))
    ELSE IF age_diff <= 5 THEN Returned(7000, Lines({<<"age_diff", 7000>>}))
    ELSE IF age_diff <= 8 THEN Returned(3000, Lines({<<"age_diff", 3000>>}))
    ELSE IF ~IsDict(pref_a) \/ ~IsDict(pref_b) THEN Raised
    ELSE
    LET age_flex_a == GetIn(pref_a, "age_range", "flexible", Bool(FALSE))
        age_flex_b == GetIn(pref_b, "age_range", "flexible", Bool(FALSE))
    IN
    IF age_flex_a = PyRaise \/ age_flex_b = PyRaise THEN Raised
    ELSE IF Truthy(age_flex_a) /\ Truthy(age_flex_b)
    THEN Returned(1000, Lines({<<"age_diff_flexible", 1000>>}))
    ELSE Returned(-5000, Lines({<<"age_diff_penalty", -5000>>}))

\* A lifestyle sub-score that weighs the diet by the first profile's
\* weight alone instead of the larger of the two.
LifestyleOwnWeight(demo_a, demo_b, pref_a, pref_b) ==
    IF ~IsDict(demo_a) \/ ~IsDict(demo_b) \/ ~IsDict(pref_a) \/ ~IsDict(pref_b) THEN Raised
    ELSE
    LET veg_a == Get(demo_a, "vegetarian", Bool(FALSE))
        veg_b == Get(demo_b, "vegetarian", Bool(FALSE))
        veg_weight_a == GetIn(pref_a, "vegetarian", "weight", Num(500))
        veg_weight_b == GetIn(pref_b, "vegetarian", "weight", Num(500))
        occ_a == Get(demo_a, "occupation", Str(""))
        occ_b == Get(demo_b, "occupation", Str(""))
    IN
    IF ~IsNum(veg_weight_a) \/ ~IsNum(veg_weight_b) THEN Raised
    ELSE IF Truthy(occ_a) /\ Truthy(occ_b) /\ (~IsStr(occ_a) \/ ~IsStr(occ_b)) THEN Raised
    ELSE
    LET veg == IF veg_a = veg_b
               THEN {<<"vegetarian_match", 10 * veg_weight_a.n>>}
               ELSE IF veg_weight_a.n > 800
               THEN {<<"vegetarian_mismatch", -15 * veg_weight_a.n>>}
               ELSE {}
        occ == IF Truthy(occ_a) /\ Truthy(occ_b) /\ _similar_occupation(occ_a.s, occ_b.s)
               THEN {<<"similar_occupation", 5000>>}
               ELSE {}
        score == (IF veg = {} THEN 0 ELSE (CHOOSE pr \in veg : TRUE)[2])
                   + (IF occ = {} THEN 0 ELSE 5000)
    IN  Returned(score, Lines({<<pr[1], Round2(pr[2])>> : pr \in veg} \cup occ))

_score_lifestyle(demo_a, demo_b, pref_a, pref_b) ==
    IF ~IsDict(demo_a) \/ ~IsDict(demo_b) \/ ~IsDict(pref_a) \/ ~IsDict(pref_b) THEN Raised
    ELSE
    LET veg_a == Get(demo_a, "vegetarian", Bool(FALSE))
        veg_b == Get(demo_b, "vegetarian", Bool(FALSE))
        veg_weight_a == GetIn(pref_a, "vegetarian", "weight", Num(500))
        veg_weight_b == GetIn(pref_b, "vegetarian", "weight", Num(500))
        occ_a == Get(demo_a, "occupation", Str(""))
        occ_b == Get(demo_b, "occupation", Str(""))
    IN
    IF ~IsNum(veg_weight_a) \/ ~IsNum(veg_weight_b) THEN Raised
    ELSE IF Truthy(occ_a) /\ Truthy(occ_b) /\ (~IsStr(occ_a) \/ ~IsStr(occ_b)) THEN Raised
    ELSE
    LET veg == IF veg_a = veg_b
               THEN {<<"vegetarian_match", 10 * Max(veg_weight_a.n, veg_weight_b.n)>>}
               ELSE IF veg_weight_a.n > 800 \/ veg_weight_b.n > 800
               THEN {<<"vegetarian_mismatch", -15 * Max(veg_weight_a.n, veg_weight_b.n)>>}
               ELSE {}
        occ == IF Truthy(occ_a) /\ Truthy(occ_b) /\ _similar_occupation(occ_a.s, occ_b.s)
               THEN {<<"similar_occupation", 5000>>}
               ELSE {}
        score == (IF veg = {} THEN 0 ELSE (CHOOSE pr \in veg : TRUE)[2])
                   + (IF occ = {} THEN 0 ELSE 5000)
    IN  Returned(score, Lines({<<pr[1], Round2(pr[2])>> : pr \in veg} \cup occ))

\* any(word in s for s in signal_keywords), for one of the words
AnyTag(words, signals) == \E s \in signals.items : AnyIn(words, Lower(s.s))

_score_signals(signals_a, signals_b, pref_a, pref_b) ==
    IF ~IsList(signals_a) \/ ~IsList(signals_b) THEN Raised
    ELSE IF \E s \in signals_a.items \cup signals_b.items : ~IsStr(s) THEN Raised
    ELSE
    LET diaspora == IF AnyTag({"diaspora"}, signals_a) /\ AnyTag({"diaspora"}, signals_b)
                    THEN {<<"shared_diaspora_experience", 10000>>} ELSE {}
        family == IF AnyTag({"family"}, signals_a) /\ AnyTag({"family"}, signals_b)
                  THEN {<<"family_oriented", 5000>>} ELSE {}
        intellectual ==
            IF AnyTag({"intellectual", "curious"}, signals_a)
               /\ AnyTag({"intellectual", "curious"}, signals_b)
            THEN {<<"intellectual_match", 5000>>} ELSE {}
        score == (IF diaspora = {} THEN 0 ELSE 10000) + (IF family = {} THEN 0 ELSE 5000)
                   + (IF intellectual = {} THEN 0 ELSE 5000)
    IN  Returned(score, Lines(diaspora \cup family \cup intellectual))

SubScoreNames == {"location", "cultural", "age", "lifestyle", "signals"}

\* The five sub-scores of a pair, by name.
SubScores(profile_x, profile_y) ==
    LET demo_a == Get(profile_x, "demographics", Dict(EmptyDict))
        demo_b == Get(profile_y, "demographics", Dict(EmptyDict))
        pref_a == Get(profile_x, "preferences", Dict(EmptyDict))
        pref_b == Get(profile_y, "preferences", Dict(EmptyDict))
        signals_a == Get(profile_x, "signals", List({}))
        signals_b == Get(profile_y, "signals", List({}))
    IN  [location |-> _score_location(demo_a, demo_b, pref_a, pref_b),
         cultural |-> _score_cultural(demo_a, demo_b, pref_a, pref_b),
         age |-> _score_age(demo_a, demo_b, pref_a, pref_b),
         lifestyle |-> _score_lifestyle(demo_a, demo_b, pref_a, pref_b),
         signals |-> _score_signals(signals_a, signals_b, pref_a, pref_b)]

\* A total that leaves the signals sub-score out while the breakdown lists it.
TotalWithoutSignals(profile_x, profile_y) ==
    LET sub == SubScores(profile_x, profile_y) IN
    IF \E name \in SubScoreNames : sub[name].raised THEN Raised
    ELSE
    LET score == sub["location"].score + sub["cultural"].score + sub["age"].score
                   + sub["lifestyle"].score
    IN  Returned(score,
                 [k \in SubScoreNames \cup {"total"} |->
                     IF k = "total" THEN Round2(score) ELSE sub[k].breakdown])

calculate_match_score(profile_x, profile_y) ==
    LET sub == SubScores(profile_x, profile_y) IN
    IF \E name \in SubScoreNames : sub[name].raised THEN Raised
    ELSE
    LET score == sub["location"].score + sub["cultural"].score + sub["age"].score
                   + sub["lifestyle"].score + sub["signals"].score
    IN  Returned(score,
                 [k \in SubScoreNames \cup {"total"} |->
                     IF k = "total" THEN Round2(score) ELSE sub[k].breakdown])

(***************************************************************************)
(* Profiles the scorer is applied to.                                      *)
(***************************************************************************)

\* A key the dict does not hold.
Absent == [t |-> "absent"]

\* The dict of the keys of `choice` that are not Absent.
DictOf(choice) ==
    Dict([k \in {x \in DOMAIN choice : choice[x] # Absent} |-> choice[k]])

\* {'weight': w}
Weight(w) == Dict([weight |-> Num(w)])

\* {'flexible': True}
Flexible == Dict([flexible |-> Bool(TRUE)])

NotCalled == EmptyDict

AllTags ==
    List({Str("Mentioned Diaspora loneliness"), Str("Family-oriented"),
          Str("Intellectually curious")})

\* Profiles that differ in what the location sub-score reads.
LocationProfiles ==
    {DictOf([demographics |-> DictOf([location |-> l, caste |-> c, language |-> g]),
             preferences |-> DictOf([location_proximity |-> w, cultural_weight |-> cw])]) :
        l \in {Absent, Str("Sydney, Australia"), Str("sydney, australia"), Str("Parramatta"),
               Str("Canberra, Australia"), Str("Delhi, India")},
        c \in {Absent, Str("Patel"), Str("Sharma")},
        g \in {Absent, Str("Gujarati")},
        w \in {Absent, Weight(500), Weight(600)},
        cw \in {Absent, Str("HIGH")}}

\* Sparse profiles: every attribute missing, None or populated.
SparseProfiles ==
    {DictOf([demographics |->
                DictOf([location |-> l, age |-> a, occupation |-> o, caste |-> c,
                        language |-> g, vegetarian |-> v]),
             preferences |-> p, signals |-> sg]) :
        l \in {Absent, PyNone, Str("Canberra, Australia")},
        a \in {Absent, PyNone, Num(28)},
        o \in {Absent, PyNone, Str("Software Engineer")},
        c \in {Absent, PyNone, Str("Patel")},
        g \in {Absent, PyNone, Str("Gujarati")},
        v \in {Absent, PyNone, Bool(TRUE)},
        p \in {Absent, DictOf([same_caste |-> PyNone])},
        sg \in {Absent, List({PyNone})}}

\* canberra_profile of the module's own test
canberra_profile ==
    DictOf([telegram_id |-> Num(1),
            demographics |->
                DictOf([age |-> Num(28), location |-> Str("Canberra, Australia"),
                        occupation |-> Str("Software Engineer"), caste |-> Str("Patel"),
                        language |-> Str("Gujarati"), vegetarian |-> Bool(TRUE)]),
            preferences |->
                DictOf([location_proximity |-> Weight(500), cultural_weight |-> Str("HIGH"),
                        same_caste |-> Weight(700), language |-> Weight(800),
                        vegetarian |-> Weight(900)]),
            signals |-> List({Str("mentioned diaspora loneliness"),
                              Str("values cultural grounding")})])

\* {} (what _convert_profile_v2_to_v1 returns for no profile) and a full profile
BaseProfiles == {Dict(EmptyDict), canberra_profile}

InitScore ==
    /\ MergeIdle
    /\ ConcIdle
    /\ OtherIdle
    /\ \/ \E a, b \in LocationProfiles : profile_a = a /\ profile_b = b
       \/ \E a \in SparseProfiles, b \in BaseProfiles :
            \/ profile_a = a /\ profile_b = b
            \/ profile_a = b /\ profile_b = a
    /\ profile_c = Dict(EmptyDict)
    /\ result = NotCalled
    /\ result_c = NotCalled

\* score, breakdown = matcher.calculate_match_score(profile_a, profile_b)
CalculateMatchScore ==
    /\ result = NotCalled
    /\ result' = calculate_match_score(profile_a, profile_b)
    /\ UNCHANGED <<mergeVars, concVars, otherVars, profile_a, profile_b, profile_c, result_c>>

NextScore == CalculateMatchScore

SpecScore == InitScore /\ [][NextScore]_vars

(***************************************************************************)
(* The Canberra comparison of the module's own test: one profile A scored  *)
(* against a candidate B in another city of A's country and a candidate C  *)
(* in another country.                                                     *)
(***************************************************************************)

\* Profile A: Canberra, Patel, Gujarati, cultural_weight HIGH.
CanberraProfiles ==
    {DictOf([telegram_id |-> Num(1),
             demographics |->
                DictOf([age |-> Num(28), location |-> Str("Canberra, Australia"),
                        occupation |-> Str("Software Engineer"), caste |-> Str("Patel"),
                        language |-> Str("Gujarati"), vegetarian |-> Bool(TRUE)]),
             preferences |->
                DictOf([location_proximity |-> Weight(lw), cultural_weight |-> Str("HIGH"),
                        same_caste |-> Weight(cw), language |-> Weight(cw),
                        vegetarian |-> Weight(vw), age_range |-> fl]),
             signals |-> AllTags]) :
        lw \in {500, 800}, cw \in {0, 800}, vw \in {500, 1000}, fl \in {Absent, Flexible}}

\* Candidates B: Sydney, sharing A's caste and language.
SydneyProfiles ==
    {DictOf([telegram_id |-> Num(2),
             demographics |->
                DictOf([age |-> Num(age), location |-> Str("Sydney, Australia"),
                        occupation |-> Str("Consultant"), caste |-> Str("Patel"),
                        language |-> Str("Gujarati"), vegetarian |-> Bool(veg)]),
             preferences |->
                DictOf([location_proximity |-> Weight(lw), cultural_weight |-> Str("HIGH"),
                        same_caste |-> Weight(cw), language |-> Weight(cw),
                        vegetarian |-> Weight(vw), age_range |-> fl]),
             signals |-> sg]) :
        age \in {27, 40}, veg \in BOOLEAN, lw \in {500, 800}, cw \in {0, 800},
        vw \in {500, 1000}, fl \in {Absent, Flexible}, sg \in {List({}), AllTags}}

\* Candidates C: Delhi, sharing neither caste nor language with A, no
\* cultural_weight, with the age, diet and occupation of candidate b.
DelhiProfiles(b) ==
    {DictOf([telegram_id |-> Num(3),
             demographics |->
                DictOf([age |-> b.d["demographics"].d["age"],
                        location |-> Str("Delhi, India"),
                        occupation |-> b.d["demographics"].d["occupation"],
                        caste |-> cl[1], language |-> cl[2],
                        vegetarian |-> b.d["demographics"].d["vegetarian"]]),
             preferences |->
                DictOf([location_proximity |-> Weight(lw),
                        vegetarian |-> Weight(vw), age_range |-> fl]),
             signals |-> sg]) :
        cl \in {<<Absent, Absent>>, <<Str("Sharma"), Str("Hindi")>>},
        lw \in {500, 800}, vw \in {500, 1000}, fl \in {Absent, Flexible},
        sg \in {List({}), AllTags}}

InitCanberra ==
    /\ MergeIdle
    /\ ConcIdle
    /\ OtherIdle
    /\ profile_a \in CanberraProfiles
    /\ profile_b \in SydneyProfiles
    /\ profile_c \in DelhiProfiles(profile_b)
    /\ result = NotCalled
    /\ result_c = NotCalled

\* score_sydney, score_delhi of the test at the end of matching.py
CanberraTest ==
    /\ result = NotCalled
    /\ result' = calculate_match_score(profile_a, profile_b)
    /\ result_c' = calculate_match_score(profile_a, profile_c)
    /\ UNCHANGED <<mergeVars, concVars, otherVars, profile_a, profile_b, profile_c>>

NextCanberra == CanberraTest

SpecCanberra == InitCanberra /\ [][NextCanberra]_vars

(***************************************************************************)
(* Claims about the scorer.                                                *)
(***************************************************************************)

DemoOf(p) == Get(p, "demographics", Dict(EmptyDict))
PrefOf(p) == Get(p, "preferences", Dict(EmptyDict))
SignalsOf(p) == Get(p, "signals", List({}))

\* The attribute is missing from the demographics or None.
NoAttr(p, key) == key \notin DOMAIN DemoOf(p).d \/ DemoOf(p).d[key] = PyNone

Scored == result # NotCalled

\* C7 as stated: A has cultural_weight HIGH, B is in another city of A's
\* country and shares A's caste and language, C is in another country and
\* shares neither and has no cultural_weight, B and C have equal age, diet
\* and occupation (all of which holds of every profile triple of the
\* Canberra comparison): then score(A, B) > score(A, C).
C7_CompensationBeatsDistance ==
    (Scored /\ ~result.raised /\ ~result_c.raised) => result.score > result_c.score

\* C7 amended: the same, for candidates B and C that also carry equal signal
\* tags.
C7_CompensationEqualSignals ==
    (Scored /\ SignalsOf(profile_b) = SignalsOf(profile_c))
      => ~result.raised /\ ~result_c.raised /\ result.score > result_c.score

\* C7 witness: with equal signal tags, B is rigid about location, has a
\* large age gap it is not flexible about and a diet mismatch it weighs
\* fully, C is flexible on all of these, and B still scores higher.
C7_Witness ==
    /\ Scored
    /\ SignalsOf(profile_b) = SignalsOf(profile_c)
    /\ "one_flexible" \in DOMAIN result_c.breakdown["location"]
    /\ DOMAIN result.breakdown["location"] = {"same_country", "cultural_compensation"}
    /\ "age_diff_penalty" \in DOMAIN result.breakdown["age"]
    /\ "age_diff_flexible" \in DOMAIN result_c.breakdown["age"]
    /\ "vegetarian_mismatch" \in DOMAIN result.breakdown["lifestyle"]
    /\ result.score > result_c.score

\* Both profiles carry the same location string.
SameLocation ==
    /\ "location" \in DOMAIN DemoOf(profile_a).d
    /\ "location" \in DOMAIN DemoOf(profile_b).d
    /\ IsStr(DemoOf(profile_a).d["location"])
    /\ DemoOf(profile_a).d["location"] = DemoOf(profile_b).d["location"]

\* C8: when the two locations are identical the location sub-score is
\* exactly 30 and its breakdown holds the same_city line alone, whatever the
\* preference weights and cultural_weight values.
C8_SameCityShortCircuit ==
    (Scored /\ SameLocation) =>
        /\ SubScores(profile_a, profile_b)["location"]
             = Returned(30000, [same_city |-> 30000])
        /\ ~result.raised => result.breakdown["location"] = [same_city |-> 30000]

\* C8 witness: same city, both flexible about location, one side with
\* cultural_weight HIGH and a shared caste, and the location breakdown is
\* the same_city line alone.
C8_Witness ==
    /\ Scored /\ SameLocation /\ ~result.raised
    /\ DemoOf(profile_a).d["location"] = Str("Sydney, Australia")
    /\ Get(PrefOf(profile_a), "cultural_weight", PyNone) = Str("HIGH")
    /\ Get(PrefOf(profile_a), "location_proximity", PyNone) = Weight(500)
    /\ Get(PrefOf(profile_b), "location_proximity", PyNone) = Weight(500)
    /\ Get(DemoOf(profile_a), "caste", PyNone) = Str("Patel")
    /\ Get(DemoOf(profile_b), "caste", PyNone) = Str("Patel")
    /\ result.breakdown["location"] = [same_city |-> 30000]

\* No demographic field, preference or signal is populated.
Unpopulated(p) ==
    /\ DemoOf(p) = Dict(EmptyDict)
    /\ PrefOf(p) = Dict(EmptyDict)
    /\ SignalsOf(p) = List({})

\* C9: scoring two profiles with nothing populated returns total 0.0 and a
\* breakdown that is empty or all-zero, without raising.
C9_UnpopulatedScoresZero ==
    (Scored /\ Unpopulated(profile_a) /\ Unpopulated(profile_b)) =>
        /\ ~result.raised
        /\ result.score = 0
        /\ result.breakdown["total"] = 0
        /\ \A name \in SubScoreNames :
             \A line \in DOMAIN result.breakdown[name] : result.breakdown[name][line] = 0

\* C10: the scorer returns for every pair of sparse profiles, and a
\* sub-factor whose attribute is missing or None on either side adds no
\* line to the breakdown.
C10_SparseNeverRaises ==
    Scored =>
        /\ ~result.raised
        /\ (NoAttr(profile_a, "location") \/ NoAttr(profile_b, "location"))
             => result.breakdown["location"] = EmptyDict
        /\ (NoAttr(profile_a, "age") \/ NoAttr(profile_b, "age"))
             => result.breakdown["age"] = EmptyDict
        /\ (NoAttr(profile_a, "caste") \/ NoAttr(profile_b, "caste"))
             => DOMAIN result.breakdown["cultural"]
                  \cap {"same_caste", "different_caste_penalty"} = {}
        /\ (NoAttr(profile_a, "language") \/ NoAttr(profile_b, "language"))
             => "same_language" \notin DOMAIN result.breakdown["cultural"]
        /\ (NoAttr(profile_a, "vegetarian") \/ NoAttr(profile_b, "vegetarian"))
             => DOMAIN result.breakdown["lifestyle"]
                  \cap {"vegetarian_match", "vegetarian_mismatch"} = {}
        /\ (NoAttr(profile_a, "occupation") \/ NoAttr(profile_b, "occupation"))
             => "similar_occupation" \notin DOMAIN result.breakdown["lifestyle"]

(***************************************************************************)
(* matching.py: find_matches.  A match is the triple (candidate, score,    *)
(* breakdown) of the code; the model also keeps the candidate's position   *)
(* in all_profiles, which the code does not store, to tell apart equal     *)
(* candidates.                                                             *)
(***************************************************************************)

Match(candidate, scored, index) ==
    [candidate |-> candidate, score |-> scored.score,
     breakdown |-> scored.breakdown, index |-> index]

\* What find_matches returns: a list of matches, or an exception.
Found(list) == [raised |-> FALSE, list |-> list]
FindRaised == [raised |-> TRUE, list |-> <<>>]

RECURSIVE Scan(_, _, _, _, _)

\* A threshold test that keeps only the candidates strictly above it.
KeepStrict(profile, candidates, threshold, i, acc, scored) ==
    IF scored.raised THEN FindRaised
    ELSE IF scored.score > threshold
    THEN Scan(profile, candidates, threshold, i + 1,
              Append(acc, Match(candidates[i], scored, i)))
    ELSE Scan(profile, candidates, threshold, i + 1, acc)

\* if score >= min_score: matches.append((candidate_profile, score, breakdown))
Keep(profile, candidates, threshold, i, acc, scored) ==
    IF scored.raised THEN FindRaised
    ELSE IF scored.score >= threshold
    THEN Scan(profile, candidates, threshold, i + 1,
              Append(acc, Match(candidates[i], scored, i)))
    ELSE Scan(profile, candidates, threshold, i + 1, acc)

\* A loop that scores the querying profile's own entry like any other.
ScanNoSkip(profile, candidates, threshold, i, acc) ==
    IF i > Len(candidates) THEN Found(acc)
    ELSE Keep(profile, candidates, threshold, i, acc,
              calculate_match_score(profile, candidates[i]))

\* for candidate_profile in all_profiles: skip self, score, keep
Scan(profile, candidates, threshold, i, acc) ==
    IF i > Len(candidates) THEN Found(acc)
    ELSE IF Get(candidates[i], "telegram_id", PyNone) = Get(profile, "telegram_id", PyNone)
    THEN Scan(profile, candidates, threshold, i + 1, acc)
    ELSE Keep(profile, candidates, threshold, i, acc,
              calculate_match_score(profile, candidates[i]))

\* Insert m before the first element of the sorted list that scores no more than m.
RECURSIVE InsertBeforeEqual(_, _)
InsertBeforeEqual(sorted, m) ==
    IF sorted = <<>> THEN <<m>>
    ELSE IF Head(sorted).score <= m.score THEN <<m>> \o sorted
    ELSE <<Head(sorted)>> \o InsertBeforeEqual(Tail(sorted), m)

\* Insert m before the first element of the sorted list that scores less than m.
RECURSIVE InsertAfterEqual(_, _)
InsertAfterEqual(sorted, m) ==
    IF sorted = <<>> THEN <<m>>
    ELSE IF Head(sorted).score < m.score THEN <<m>> \o sorted
    ELSE <<Head(sorted)>> \o InsertAfterEqual(Tail(sorted), m)

\* A descending sort that puts a later equal-score match first.
RECURSIVE SortTiesReversed(_)
SortTiesReversed(list) ==
    IF list = <<>> THEN <<>>
    ELSE InsertBeforeEqual(SortTiesReversed(SubSeq(list, 1, Len(list) - 1)), list[Len(list)])

\* matches.sort(key=lambda x: x[1], reverse=True): descending and stable
RECURSIVE SortByScore(_)
SortByScore(list) ==
    IF list = <<>> THEN <<>>
    ELSE InsertAfterEqual(SortByScore(SubSeq(list, 1, Len(list) - 1)), list[Len(list)])

Min(a, b) == IF a <= b THEN a ELSE b

\* list[:n] for n >= 0
Slice(list, n) == SubSeq(list, 1, Min(n, Len(list)))

\* matches.sort(..); return matches[:limit]
SortAndSlice(scanned, n) ==
    IF scanned.raised THEN FindRaised
    ELSE Found(Slice(SortByScore(scanned.list), n))

find_matches(profile, candidates, threshold, n) ==
    SortAndSlice(Scan(profile, candidates, threshold, 1, <<>>), n)

\* sydney_match of the module's own test
sydney_match ==
    DictOf([telegram_id |-> Num(2),
            demographics |->
                DictOf([age |-> Num(27), location |-> Str("Sydney, Australia"),
                        occupation |-> Str("Consultant"), caste |-> Str("Patel"),
                        language |-> Str("Gujarati"), vegetarian |-> Bool(TRUE)]),
            preferences |->
                DictOf([location_proximity |-> Weight(600), cultural_weight |-> Str("HIGH"),
                        same_caste |-> Weight(800), language |-> Weight(700),
                        vegetarian |-> Weight(900)]),
            signals |-> List({Str("family-oriented"), Str("values cultural connection")})])

\* delhi_match of the module's own test
delhi_match ==
    DictOf([telegram_id |-> Num(3),
            demographics |->
                DictOf([age |-> Num(28), location |-> Str("Delhi, India"),
                        occupation |-> Str("Software Engineer"), caste |-> Str("Patel"),
                        language |-> Str("Gujarati"), vegetarian |-> Bool(TRUE)]),
            preferences |->
                DictOf([location_proximity |-> Weight(800), same_caste |-> Weight(700),
                        vegetarian |-> Weight(900)]),
            signals |-> List({})])

\* The same profile under another telegram_id.
WithTelegramId(profile, id) == Dict(SetItem(profile.d, "telegram_id", Num(id)))

\* Candidates: the test's three profiles, a second user with sydney_match's
\* attributes, another profile under the querying user's telegram_id, the
\* {} of a missing profile, and a user whose city is None.
CandidatePool ==
    {canberra_profile, sydney_match, delhi_match, WithTelegramId(sydney_match, 4),
     WithTelegramId(delhi_match, 1), Dict(EmptyDict),
     DictOf([telegram_id |-> Num(5), demographics |-> DictOf([location |-> PyNone])])}

MaxCandidates == 3
MaxLimit == 3

CandidateLists == UNION {[1..n -> CandidatePool] : n \in 0..MaxCandidates}

\* Below every score, the caller's 40.0, and the score of sydney_match.
MinScores == {-10000, 40000, 74000}

InitFind ==
    /\ MergeIdle
    /\ ConcIdle
    /\ ScoreIdle
    /\ RowIdle
    /\ RestIdle
    /\ user_profile \in {canberra_profile, Dict(EmptyDict)}
    /\ all_profiles \in CandidateLists
    /\ min_score \in MinScores
    /\ limit \in 0..MaxLimit
    /\ matches = NotCalled

\* matches = matcher.find_matches(user_profile, all_profiles, min_score, limit)
FindMatches ==
    /\ matches = NotCalled
    /\ matches' = find_matches(user_profile, all_profiles, min_score, limit)
    /\ UNCHANGED <<mergeVars, concVars, scoreVars, rowVars, restVars,
                   user_profile, all_profiles, min_score, limit>>

NextFind == FindMatches

SpecFind == InitFind /\ [][NextFind]_vars

(***************************************************************************)
(* Claims about find_matches.                                              *)
(***************************************************************************)

Searched == matches # NotCalled

TelegramId(p) == Get(p, "telegram_id", PyNone)

\* C11: the querying profile is never an element of its own find_matches
\* result, whatever the candidate list and min_score: no returned candidate
\* is the querying profile or carries its telegram_id.
C11_SelfExcluded ==
    (Searched /\ ~matches.raised) =>
        \A k \in 1..Len(matches.list) :
            /\ matches.list[k].candidate # user_profile
            /\ TelegramId(matches.list[k].candidate) # TelegramId(user_profile)

\* C11 witness: the querying profile is in the candidate list, it scores
\* at least min_score against itself, and other candidates were returned.
C11_Witness ==
    /\ Searched /\ ~matches.raised
    /\ \E i \in 1..Len(all_profiles) : all_profiles[i] = user_profile
    /\ ~calculate_match_score(user_profile, user_profile).raised
    /\ calculate_match_score(user_profile, user_profile).score >= min_score
    /\ Len(matches.list) = 2

\* C12: the returned matches are in descending order of total, and two
\* returned matches of equal total are in the order of the candidate list.
C12_DescendingStable ==
    (Searched /\ ~matches.raised) =>
        \A i, j \in 1..Len(matches.list) :
            i < j =>
                /\ matches.list[i].score >= matches.list[j].score
                /\ matches.list[i].score = matches.list[j].score
                     => matches.list[i].index < matches.list[j].index

\* C12 witness: a result that holds two different candidates of equal total
\* and one of another total that came earlier in the candidate list than
\* the match returned before it.
C12_Witness ==
    /\ Searched /\ ~matches.raised
    /\ \E i, j \in 1..Len(matches.list) :
         /\ i < j
         /\ matches.list[i].score = matches.list[j].score
         /\ matches.list[i].candidate # matches.list[j].candidate
    /\ \E i, j \in 1..Len(matches.list) :
         /\ i < j
         /\ matches.list[i].score > matches.list[j].score
         /\ matches.list[i].index > matches.list[j].index

\* The positions of the candidates other than the querying profile that
\* score at least min_score.
Qualifying ==
    {i \in 1..Len(all_profiles) :
        /\ TelegramId(all_profiles[i]) # TelegramId(user_profile)
        /\ calculate_match_score(user_profile, all_profiles[i]).score >= min_score}

\* The place of candidate i in the stably score-sorted list of the
\* qualifying candidates.
Rank(i) ==
    1 + Cardinality(
          {j \in Qualifying :
              LET si == calculate_match_score(user_profile, all_profiles[i]).score
                  sj == calculate_match_score(user_profile, all_profiles[j]).score
              IN  sj > si \/ (sj = si /\ j < i)})

\* C13: for a limit of 0 or more, the result is exactly the first `limit`
\* elements of the stably score-sorted list of the candidates other than
\* the querying profile whose total is >= min_score.
C13_Selection ==
    (Searched /\ ~matches.raised) =>
        /\ Len(matches.list) = Min(limit, Cardinality(Qualifying))
        /\ \A k \in 1..Len(matches.list) :
             LET m == matches.list[k] IN
             /\ m.index \in Qualifying
             /\ Rank(m.index) = k
             /\ m.candidate = all_profiles[m.index]
             /\ Returned(m.score, m.breakdown)
                  = calculate_match_score(user_profile, m.candidate)

\* C13 witness: three candidates qualify, one exactly at min_score, and
\* the limit cuts the result to two.
C13_Witness ==
    /\ Searched /\ ~matches.raised
    /\ Cardinality(Qualifying) = 3
    /\ limit = 2
    /\ Len(matches.list) = 2
    /\ \E i \in Qualifying :
         calculate_match_score(user_profile, all_profiles[i]).score = min_score

(***************************************************************************)
(* The scorer on fully populated profiles whose preference weights range   *)
(* over the bounds of [0, 1], a value that 15 * w does not keep to two     *)
(* decimals, and values outside [0, 1].                                    *)
(***************************************************************************)

PreferenceWeights == {-500, 0, 333, 1000, 1500}

WeightProfiles ==
    {DictOf([demographics |->
                DictOf([age |-> Num(age), location |-> Str(loc),
                        occupation |-> Str("Software Engineer"),
                        caste |-> Str(cl[1]), language |-> Str(cl[2]),
                        vegetarian |-> Bool(veg)]),
             preferences |->
                DictOf([location_proximity |-> Weight(w), cultural_weight |-> cs[1],
                        same_caste |-> Weight(w), language |-> Weight(w),
                        vegetarian |-> Weight(w)]),
             signals |-> cs[2]]) :
        age \in {28, 40},
        loc \in {"Canberra, Australia", "Sydney, Australia", "Delhi, India"},
        cl \in {<<"Patel", "Gujarati">>, <<"Sharma", "Hindi">>},
        veg \in BOOLEAN,
        w \in PreferenceWeights,
        cs \in {<<Str("HIGH"), AllTags>>, <<Absent, List({})>>}}

InitWeights ==
    /\ MergeIdle
    /\ ConcIdle
    /\ OtherIdle
    /\ profile_a \in WeightProfiles
    /\ profile_b \in WeightProfiles
    /\ profile_c = Dict(EmptyDict)
    /\ result = NotCalled
    /\ result_c = NotCalled

SpecWeights == InitWeights /\ [][NextScore]_vars

\* The sum of the contributions of one breakdown dict.
RECURSIVE SumLines(_)
SumLines(lines) ==
    IF DOMAIN lines = {} THEN 0
    ELSE LET k == CHOOSE x \in DOMAIN lines : TRUE
         IN  lines[k] + SumLines([x \in DOMAIN lines \ {k} |-> lines[x]])

\* Half a hundredth of a point: what round(x, 2) can move one entry by.
RoundingStep == 5

\* The weights a profile declares.
WeightsOf(p) ==
    {PrefOf(p).d[k].d["weight"].n :
        k \in {x \in DOMAIN PrefOf(p).d :
                 IsDict(PrefOf(p).d[x]) /\ "weight" \in DOMAIN PrefOf(p).d[x].d}}

WeightsInRange == \A w \in WeightsOf(profile_a) \cup WeightsOf(profile_b) : 0 <= w /\ w <= 1000

C15_SubScoresWithin30 ==
    (Scored /\ ~result.raised /\ WeightsInRange) =>
        \A name \in SubScoreNames :
            LET x == SubScores(profile_a, profile_b)[name].score
            IN  -20000 <= x /\ x <= 30000

\* C15 amended: with preference weights in [0, 1], location lies in
\* [-10, 40], cultural in [-10, 25], age in [-5, 10], lifestyle in
\* [-15, 15] and signals in [0, 20].
C15_SubScoreBounds ==
    (Scored /\ ~result.raised /\ WeightsInRange) =>
        LET sub == SubScores(profile_a, profile_b) IN
        /\ -10000 <= sub["location"].score /\ sub["location"].score <= 40000
        /\ -10000 <= sub["cultural"].score /\ sub["cultural"].score <= 25000
        /\ -5000 <= sub["age"].score /\ sub["age"].score <= 10000
        /\ -15000 <= sub["lifestyle"].score /\ sub["lifestyle"].score <= 15000
        /\ 0 <= sub["signals"].score /\ sub["signals"].score <= 20000

\* C15 witness: weights in [0, 1] and the location sub-score at 40 (both
\* flexible, same country, full cultural compensation).
C15_Witness ==
    /\ Scored /\ ~result.raised /\ WeightsInRange
    /\ result.breakdown["location"]
         = [both_flexible |-> 15000, same_country |-> 5000, cultural_compensation |-> 20000]
    /\ SubScores(profile_a, profile_b)["location"].score = 40000

\* A weight moved to the nearest bound of [0, 1].
Clamp(w) == IF w < 0 THEN 0 ELSE IF w > 1000 THEN 1000 ELSE w

\* The profile with every declared weight clamped.
Clamped(p) ==
    IF "preferences" \notin DOMAIN p.d THEN p
    ELSE Dict(SetItem(p.d, "preferences",
           Dict([k \in DOMAIN PrefOf(p).d |->
                   IF IsDict(PrefOf(p).d[k]) /\ "weight" \in DOMAIN PrefOf(p).d[k].d
                   THEN Dict(SetItem(PrefOf(p).d[k].d, "weight",
                                     Num(Clamp(PrefOf(p).d[k].d["weight"].n))))
                   ELSE PrefOf(p).d[k]])))

\* C16: a preference weight outside [0, 1] acts as the nearest bound: the
\* result for a pair equals the result for the same pair with every weight
\* clamped.
C16_WeightsClamped ==
    Scored => result = calculate_match_score(Clamped(profile_a), Clamped(profile_b))

(***************************************************************************)
(* The scorer on profiles that differ in age and age-range flexibility.    *)
(***************************************************************************)

MinAge == 18
MaxAge == 40

\* {'flexible': False}
NotFlexible == Dict([flexible |-> Bool(FALSE)])

AgeProfiles ==
    {DictOf([demographics |-> DictOf([age |-> Num(age), location |-> loc]),
             preferences |-> DictOf([age_range |-> fl])]) :
        age \in MinAge..MaxAge,
        loc \in {Absent, Str("Canberra, Australia")},
        fl \in {Absent, Flexible, NotFlexible}}

InitAge ==
    /\ MergeIdle
    /\ ConcIdle
    /\ OtherIdle
    /\ profile_a \in {p \in AgeProfiles : DemoOf(p).d["age"].n \in {25, 31}}
    /\ profile_b \in AgeProfiles
    /\ profile_c = Dict(EmptyDict)
    /\ result = NotCalled
    /\ result_c = NotCalled

SpecAge == InitAge /\ [][NextScore]_vars

AgeOf(p) == DemoOf(p).d["age"].n

\* The profile marks its age range flexible.
MarksFlexible(p) ==
    /\ "age_range" \in DOMAIN PrefOf(p).d
    /\ Get(PrefOf(p).d["age_range"], "flexible", Bool(FALSE)) = Bool(TRUE)

\* The age sub-score of the claim for difference d and the two flags.
AgePoints(d, flex_a, flex_b) ==
    IF d <= 2 THEN 10000
    ELSE IF 3 <= d /\ d <= 5 THEN 7000
    ELSE IF 6 <= d /\ d <= 8 THEN 3000
    ELSE IF flex_a /\ flex_b THEN 1000 ELSE -5000

\* C20: with both (positive) ages present the age sub-score depends only on
\* d = |age_a - age_b| and the two flexibility flags: +10 for d <= 2, +7
\* for 3..5, +3 for 6..8, and for d >= 9 +1 when both mark their age range
\* flexible and -5 when either does not.
C20_AgeBoundaries ==
    (Scored /\ ~result.raised) =>
        LET points == AgePoints(Abs(AgeOf(profile_a) - AgeOf(profile_b)),
                                MarksFlexible(profile_a), MarksFlexible(profile_b))
        IN  /\ SubScores(profile_a, profile_b)["age"].score = points
            /\ SumLines(result.breakdown["age"]) = points
            /\ Cardinality(DOMAIN result.breakdown["age"]) = 1

\* C20 witness: a difference of exactly 9 with both sides flexible, scoring +1.
C20_Witness ==
    /\ Scored /\ ~result.raised
    /\ Abs(AgeOf(profile_a) - AgeOf(profile_b)) = 9
    /\ MarksFlexible(profile_a) /\ MarksFlexible(profile_b)
    /\ result.breakdown["age"] = [age_diff_flexible |-> 1000]

(***************************************************************************)
(* db_postgres_v2.py: the users row and the user_signals row of one user.  *)
(* Of the seven JSONB columns of user_signals the model keeps two:         *)
(* `stored` is the lifestyle column and `stored_values` the values column. *)
(***************************************************************************)

allowed_fields ==
    {"full_name", "date_of_birth", "age", "gender_identity", "sexual_orientation",
     "city", "country", "nationality", "ethnicity", "native_languages",
     "religion", "religious_practice_level", "children_intent", "marital_history",
     "smoking", "drinking", "dietary_restrictions",
     "relationship_intent", "relationship_timeline",
     "occupation", "industry", "education_level", "caste_community", "height_cm"}

\* UPDATE users SET <field> = <value>, .. for the allowed fields of `filters`;
\* no statement when none is allowed.
update_user_hard_filters(row, filters) ==
    LET set_clauses == {field \in DOMAIN filters : field \in allowed_fields}
    IN  [column \in DOMAIN row \cup set_clauses |->
            IF column \in set_clauses THEN filters[column] ELSE row[column]]

valid_categories ==
    {"lifestyle", "values", "relationship_style", "personality",
     "family_background", "media_signals", "match_learnings"}

\* The columns of user_signals the model keeps.
Categories == {"lifestyle", "values"}

\* An upsert that writes the row anew: the other columns fall back to empty.
UpsertReplacingRow(row, category, signals) ==
    [c \in DOMAIN row |->
        IF c = category THEN MergeSignals(row[c], signals) ELSE EmptyDict]

\* upsert_user_signals on the user_signals row, for a valid category:
\* INSERT .. ON CONFLICT (user_id) DO UPDATE SET <category> = merged
upsert_user_signals(row, category, signals) ==
    [row EXCEPT ![category] = MergeSignals(row[category], signals)]

\* The user_signals row of the user.
SignalsRow == [lifestyle |-> stored, values |-> stored_values]

(***************************************************************************)
(* The collection pipeline: free-text messages through the orchestrator    *)
(* (conversation_v2.py) and button answers through onboarding              *)
(* (onboarding_flow.py), both writing the users row and the signals row.   *)
(***************************************************************************)

\* A signal the extraction gave as a bare value instead of a dict.
BareValue == [bare |-> "Startup"]

\* isinstance(data, dict)
IsEntryDict(data) == "bare" \notin DOMAIN data

\* What the extraction may return for a field: confidences around the
\* threshold, no confidence, no dict.
ExtractedEntries ==
    {MkEntry(TRUE, "Startup", TRUE, c) : c \in Confidences}
      \cup {MkEntry(TRUE, "Startup", FALSE, 0), BareValue}

ExtractedBatches == DictsOver(ExtractedEntries)

DatesOfBirth == {"15/05/1995", "01/01/2000"}

\* hard_filters of an extraction: any of date_of_birth, city and a column
\* that is not allowed.
ExtractedHardFilters ==
    {f \in UNION {[S -> DatesOfBirth \cup {"Sydney"}] :
                     S \in SUBSET {"date_of_birth", "city", "has_children"}} :
        /\ "date_of_birth" \in DOMAIN f => f["date_of_birth"] \in DatesOfBirth
        /\ "city" \in DOMAIN f => f["city"] = "Sydney"
        /\ "has_children" \in DOMAIN f => f["has_children"] = "Sydney"}

\* What the extractions of the model offer for a field of a category.
Offered(category, field) ==
    IF category = "lifestyle" /\ field = "work_style" THEN ExtractedEntries
    ELSE IF category = "lifestyle"
    THEN {MkEntry(TRUE, "Startup", TRUE, 50), MkEntry(TRUE, "Startup", TRUE, 85)}
    ELSE IF field = "diet"
    THEN {MkEntry(TRUE, "Startup", TRUE, 70), MkEntry(TRUE, "Startup", FALSE, 0), BareValue}
    ELSE {}

\* The JSON the extraction returns.
Extractions ==
    {[hard_filters |-> h, signals |-> sg] :
        h \in ExtractedHardFilters,
        sg \in {g \in UNION {[S -> ExtractedBatches] : S \in SUBSET Categories} :
                  \A c \in DOMAIN g : \A f \in DOMAIN g[c] : g[c][f] \in Offered(c, f)}}

\* An orchestrator that hands the extraction on as it came.
NoConfidenceFilter(extracted) == extracted

\* Keep the fields whose data is a dict with confidence >= store_minimum.
_filter_by_confidence(extracted) ==
    IF "signals" \notin DOMAIN extracted THEN extracted
    ELSE [extracted EXCEPT !.signals =
            [category \in DOMAIN @ |->
                [field \in {x \in DOMAIN @[category] :
                               /\ IsEntryDict(@[category][x])
                               /\ GetConfidence(@[category][x]) >= StoreMinimum}
                   |-> @[category][field]]]]

\* The signals row after _route_to_schema has upserted every non-empty category.
RECURSIVE RouteSignals(_, _, _)
RouteSignals(row, signals, todo) ==
    IF todo = {} THEN row
    ELSE LET category == CHOOSE c \in todo : TRUE
             next == IF signals[category] # EmptyDict
                     THEN upsert_user_signals(row, category, signals[category])
                     ELSE row
         IN  RouteSignals(next, signals, todo \ {category})

\* process_user_message: _extract_signals (ending in _filter_by_confidence),
\* then _route_to_schema
ProcessUserMessage(raw) ==
    LET extracted == _filter_by_confidence(raw)
        row == RouteSignals(SignalsRow, extracted.signals, DOMAIN extracted.signals)
    IN  /\ user' = IF extracted.hard_filters # EmptyDict
                   THEN update_user_hard_filters(user, extracted.hard_filters)
                   ELSE user
        /\ stored' = row["lifestyle"]
        /\ stored_values' = row["values"]
        /\ UNCHANGED <<last_batch, history, last_category, concVars, scoreVars, findVars, restVars>>

\* The onboarding screens that write a users column or a signal.
Screens ==
    {[store_as |-> "column", column |-> c] : c \in {"date_of_birth", "city"}}
      \cup {[store_as |-> "signal", id |-> f, category |-> c] :
               f \in Fields, c \in Categories}

ScreenValues(screen) ==
    IF screen.store_as = "signal" THEN {"Corporate"}
    ELSE IF screen.column = "date_of_birth" THEN DatesOfBirth
    ELSE {"Sydney"}

\* Confidence of a button answer: 1.0
ExplicitConfidence == 100

\* OnboardingFlow._store_screen_data
StoreScreenData(screen, value) ==
    /\ \/ /\ screen.store_as = "column"
          /\ user' = update_user_hard_filters(user, [c \in {screen.column} |-> value])
          /\ UNCHANGED <<stored, stored_values>>
       \/ /\ screen.store_as = "signal"
          /\ LET signal_data == [f \in {screen.id} |->
                                    MkEntry(TRUE, value, TRUE, ExplicitConfidence)]
                 row == upsert_user_signals(SignalsRow, screen.category, signal_data)
             IN  /\ stored' = row["lifestyle"]
                 /\ stored_values' = row["values"]
          /\ UNCHANGED user
    /\ UNCHANGED <<last_batch, history, last_category, concVars, scoreVars, findVars, restVars>>

NextCollect ==
    \/ \E raw \in Extractions : ProcessUserMessage(raw)
    \/ \E screen \in Screens : \E value \in ScreenValues(screen) :
          StoreScreenData(screen, value)

SpecCollect == Init /\ [][NextCollect]_vars

(***************************************************************************)
(* Claims about the collection pipeline.                                   *)
(***************************************************************************)

\* C17: once a date_of_birth is stored, no update_user_hard_filters call,
\* from an onboarding answer or from free-text routing, changes it.
C17_DateOfBirthWriteOnce ==
    [][("date_of_birth" \in DOMAIN user)
          => /\ "date_of_birth" \in DOMAIN user'
             /\ user'["date_of_birth"] = user["date_of_birth"]]_vars

\* C18: in every state reachable through orchestrated messages and
\* onboarding answers, every stored signal has confidence >= 0.70.
C18_StoredConfidenceAtLeastMinimum ==
    \A category \in Categories : \A f \in DOMAIN SignalsRow[category] :
        /\ IsEntryDict(SignalsRow[category][f])
        /\ HasConfidence(SignalsRow[category][f])
        /\ SignalsRow[category][f]["confidence"] >= StoreMinimum

\* C18 witness: the pipeline stored a lifestyle signal exactly at the
\* threshold, an onboarding answer stored a values signal at 1.0, and the
\* lifestyle diet field is not stored.
C18_Witness ==
    /\ "work_style" \in DOMAIN stored
    /\ stored["work_style"]["confidence"] = StoreMinimum
    /\ "diet" \in DOMAIN stored_values
    /\ stored_values["diet"]["confidence"] = ExplicitConfidence
    /\ "diet" \notin DOMAIN stored

(***************************************************************************)
(* upsert_user_signals called with a category, on a user_signals row that  *)
(* holds two categories.                                                   *)
(***************************************************************************)

CategoryEntries ==
    {MkEntry(TRUE, "Startup", TRUE, 70), MkEntry(TRUE, "Startup", TRUE, 85),
     MkEntry(TRUE, "Corporate", TRUE, 85)}

CategoryBatches == DictsOver(CategoryEntries)

\* upsert_user_signals(telegram_id, category, signals); a category outside
\* valid_categories raises ValueError before anything is read or written
UpsertCategory(category, signals) ==
    /\ IF category \in valid_categories
       THEN LET row == upsert_user_signals(SignalsRow, category, signals)
            IN  /\ stored' = row["lifestyle"]
                /\ stored_values' = row["values"]
       ELSE UNCHANGED <<stored, stored_values>>
    /\ last_batch' = signals
    /\ last_category' = category
    /\ UNCHANGED <<history, user, concVars, scoreVars, findVars, restVars>>

NextCategories ==
    \E category \in Categories \cup {"hobbies"} :
        \E signals \in CategoryBatches : UpsertCategory(category, signals)

SpecCategories == Init /\ [][NextCategories]_vars

\* C19: a merge leaves every stored field that the incoming batch does not
\* name unchanged, leaves the other signal categories of the user
\* unchanged, and with an empty batch leaves the whole stored map unchanged.
C19_MergeFrame ==
    [][/\ \A category \in Categories :
            \A f \in DOMAIN SignalsRow[category] :
                (category # last_category' \/ f \notin DOMAIN last_batch')
                  => /\ f \in DOMAIN SignalsRow'[category]
                     /\ SignalsRow'[category][f] = SignalsRow[category][f]
       /\ \A category \in Categories \ {last_category'} :
            SignalsRow'[category] = SignalsRow[category]
       /\ last_batch' = EmptyDict => SignalsRow' = SignalsRow]_vars

\* C19 witness: the last merge replaced one lifestyle field, the other
\* lifestyle field and a values field are stored and were not in the batch.
C19_Witness ==
    /\ last_category = "lifestyle"
    /\ DOMAIN last_batch = {"work_style"}
    /\ DOMAIN stored = {"work_style", "diet"}
    /\ stored["work_style"] = last_batch["work_style"]
    /\ stored["diet"] # stored["work_style"]
    /\ DOMAIN stored_values = {"diet"}

(***************************************************************************)
(* Claims about the sub-scores, one at a time.                             *)
(***************************************************************************)

\* The lowercased location a profile is scored on ('' when it has none).
LocOf(p) == Lower(Get(DemoOf(p), "location", Str("")).s)

\* The two locations are neither identical nor in one metro cluster.
DifferentLocalities ==
    /\ LocOf(profile_a) # LocOf(profile_b)
    /\ ~_same_metro_area(LocOf(profile_a), LocOf(profile_b))

\* The weight a profile puts on a preference (0.5 when it states none).
WeightOn(p, key) == GetIn(PrefOf(p), key, "weight", Num(500)).n

\* The attribute is non-empty on both sides and equal.
SharedAttr(key) ==
    /\ Truthy(Get(DemoOf(profile_a), key, Str("")))
    /\ Get(DemoOf(profile_a), key, Str("")) = Get(DemoOf(profile_b), key, Str(""))

HighCulturalWeight(p) == Get(PrefOf(p), "cultural_weight", Str("medium")) = Str("HIGH")

\* F: 15 when both location weights are below 0.6, 10 when one is.
FlexibilityTerm ==
    LET below == {p \in {"a", "b"} :
                    WeightOn(IF p = "a" THEN profile_a ELSE profile_b,
                             "location_proximity") < 600}
    IN  IF Cardinality(below) = 2 THEN 15000
        ELSE IF Cardinality(below) = 1 THEN 10000 ELSE 0

\* C: +5 inside one country set, -10 otherwise.
CountryTerm ==
    IF \E cities \in countries :
         AnyIn(cities, LocOf(profile_a)) /\ AnyIn(cities, LocOf(profile_b))
    THEN 5000 ELSE -10000

\* K: 10 per shared caste and shared language when either side is HIGH.
CompensationTerm ==
    IF HighCulturalWeight(profile_a) \/ HighCulturalWeight(profile_b)
    THEN (IF SharedAttr("caste") THEN 10000 ELSE 0)
           + (IF SharedAttr("language") THEN 10000 ELSE 0)
    ELSE 0

\* C21: for two locations that are neither identical nor in the same metro
\* cluster, the location sub-score is F + C + K: F is 15 when both location
\* weights are below 0.6, 10 when exactly one is and 0 when neither is; C is
\* +5 inside one country set and -10 otherwise; K is 10 for a shared caste
\* plus 10 for a shared language when at least one side has cultural_weight
\* HIGH, and 0 when neither has.
C21_LocationDifferentLocalities ==
    (Scored /\ ~result.raised /\ DifferentLocalities) =>
        /\ SubScores(profile_a, profile_b)["location"].score
             = FlexibilityTerm + CountryTerm + CompensationTerm
        /\ SumLines(result.breakdown["location"])
             = FlexibilityTerm + CountryTerm + CompensationTerm

\* C21 witness: different cities of one country, exactly one side flexible
\* about location, cultural_weight HIGH on one side only, caste and
\* language shared: 10 + 5 + 20.
C21_Witness ==
    /\ Scored /\ ~result.raised /\ DifferentLocalities
    /\ FlexibilityTerm = 10000 /\ CountryTerm = 5000 /\ CompensationTerm = 20000
    /\ HighCulturalWeight(profile_a) /\ ~HighCulturalWeight(profile_b)
    /\ SubScores(profile_a, profile_b)["location"].score = 35000

(***************************************************************************)
(* The cultural sub-score on profiles that differ in caste, language,      *)
(* their two weights and location.                                         *)
(***************************************************************************)

CulturalProfiles ==
    {DictOf([demographics |-> DictOf([location |-> l, caste |-> c, language |-> g]),
             preferences |-> DictOf([same_caste |-> cw, language |-> gw])]) :
        l \in {Str("Sydney, Australia"), Str("Delhi, India")},
        c \in {Absent, Str(""), Str("Patel"), Str("Sharma")},
        g \in {Absent, Str("Gujarati"), Str("Hindi")},
        cw \in {Absent, Dict(EmptyDict), Weight(700), Weight(710), Weight(1000)},
        gw \in {Absent, Weight(800)}}

InitCultural ==
    /\ MergeIdle
    /\ ConcIdle
    /\ OtherIdle
    /\ profile_a \in CulturalProfiles
    /\ profile_b \in CulturalProfiles
    /\ profile_c = Dict(EmptyDict)
    /\ result = NotCalled
    /\ result_c = NotCalled

SpecCultural == InitCultural /\ [][NextScore]_vars

\* The attribute is non-empty on both sides.
BothHave(key) ==
    /\ Truthy(Get(DemoOf(profile_a), key, Str("")))
    /\ Truthy(Get(DemoOf(profile_b), key, Str("")))

\* max of the two weights on a preference, each 0.5 when not stated
MaxWeightOn(key) == Max(WeightOn(profile_a, key), WeightOn(profile_b, key))

CasteTerm ==
    IF SharedAttr("caste") THEN 15 * MaxWeightOn("same_caste")
    ELSE IF BothHave("caste")
            /\ (WeightOn(profile_a, "same_caste") > 700
                  \/ WeightOn(profile_b, "same_caste") > 700)
    THEN -10 * MaxWeightOn("same_caste")
    ELSE 0

LanguageTerm == IF SharedAttr("language") THEN 10 * MaxWeightOn("language") ELSE 0

\* C22: with w the larger of the two same-caste weights and v the larger of
\* the two language weights (each 0.5 when not stated), the cultural
\* sub-score is a caste term (15*w for non-empty equal castes, -10*w for
\* non-empty different castes when either caste weight exceeds 0.7, else 0)
\* plus a language term (10*v for non-empty equal languages, else 0),
\* whatever the two locations are.
C22_CulturalSubScore ==
    (Scored /\ ~result.raised) =>
        /\ SubScores(profile_a, profile_b)["cultural"].score = CasteTerm + LanguageTerm
        /\ SumLines(result.breakdown["cultural"]) = CasteTerm + LanguageTerm

\* C22 witness: profiles in different countries with different castes, one
\* side weighing caste above 0.7 and the other at the default, and a shared
\* language: -10 * 0.71 + 10 * 0.8.
C22_Witness ==
    /\ Scored /\ ~result.raised
    /\ LocOf(profile_a) # LocOf(profile_b)
    /\ BothHave("caste") /\ ~SharedAttr("caste")
    /\ WeightOn(profile_a, "same_caste") = 710
    /\ "same_caste" \notin DOMAIN PrefOf(profile_b).d
    /\ SharedAttr("language")
    /\ SubScores(profile_a, profile_b)["cultural"].score = -7100 + 8000

(***************************************************************************)
(* The lifestyle sub-score on profiles that differ in the dietary flag,    *)
(* its weight and the occupation.                                          *)
(***************************************************************************)

LifestyleProfiles ==
    {DictOf([demographics |-> DictOf([vegetarian |-> v, occupation |-> o]),
             preferences |-> DictOf([vegetarian |-> vw])]) :
        v \in {Absent, Bool(TRUE), Bool(FALSE)},
        o \in {Absent, Str(""), Str("Software Engineer"), Str("Tech Lead"), Str("Doctor"),
               Str("Artist")},
        vw \in {Absent, Dict(EmptyDict), Weight(800), Weight(810), Weight(1000)}}

InitLifestyle ==
    /\ MergeIdle
    /\ ConcIdle
    /\ OtherIdle
    /\ profile_a \in LifestyleProfiles
    /\ profile_b \in LifestyleProfiles
    /\ profile_c = Dict(EmptyDict)
    /\ result = NotCalled
    /\ result_c = NotCalled

SpecLifestyle == InitLifestyle /\ [][NextScore]_vars

\* The dietary flag of a profile (False when it states none).
DietFlag(p) == Get(DemoOf(p), "vegetarian", Bool(FALSE))

DietTerm ==
    IF DietFlag(profile_a) = DietFlag(profile_b) THEN 10 * MaxWeightOn("vegetarian")
    ELSE IF WeightOn(profile_a, "vegetarian") > 800 \/ WeightOn(profile_b, "vegetarian") > 800
    THEN -15 * MaxWeightOn("vegetarian")
    ELSE 0

\* The keywords of the occupation tables found in a profile's occupation,
\* whatever its case.
OccupationKeywords(p) == WordsIn(Lower(Get(DemoOf(p), "occupation", Str("")).s))

OccupationTerm ==
    IF /\ BothHave("occupation")
       /\ \E group \in occupation_groups :
            /\ group \cap OccupationKeywords(profile_a) # {}
            /\ group \cap OccupationKeywords(profile_b) # {}
    THEN 5000 ELSE 0

\* C23: with w the larger of the two diet weights (each 0.5 when not
\* stated), the lifestyle sub-score is a diet term (10*w when the dietary
\* flag is equal on both sides, -15*w when the flags differ and either diet
\* weight exceeds 0.8, 0 when they differ and neither does) plus an
\* occupation term (+5 when both occupations are present and hold a keyword
\* of one occupation group, whatever their case, else 0).
C23_LifestyleSubScore ==
    (Scored /\ ~result.raised) =>
        /\ SubScores(profile_a, profile_b)["lifestyle"].score = DietTerm + OccupationTerm
        /\ SumLines(result.breakdown["lifestyle"]) = DietTerm + OccupationTerm

\* C23 witness: the dietary flags differ, one side weighs diet above 0.8,
\* and the occupations, written in capitals, hold different keywords of
\* one group: -15 * 0.81 + 5.
C23_Witness ==
    /\ Scored /\ ~result.raised
    /\ DietFlag(profile_a) # DietFlag(profile_b)
    /\ WeightOn(profile_a, "vegetarian") = 810
    /\ WeightOn(profile_b, "vegetarian") = 500
    /\ Get(DemoOf(profile_a), "occupation", PyNone) = Str("Software Engineer")
    /\ Get(DemoOf(profile_b), "occupation", PyNone) = Str("Tech Lead")
    /\ SubScores(profile_a, profile_b)["lifestyle"].score = -12150 + 5000

(***************************************************************************)
(* services/conversational_controller: the in-memory session store and its *)
(* three endpoints.  Confidences are in hundredths, so progress_pct, which *)
(* is confidence * 100, is the same number read as a percentage.  The id   *)
(* and the two timestamps of a ConversationState are left out.             *)
(***************************************************************************)

AUTO_CONFIDENCE == 85
REVIEW_CONFIDENCE == 65

SessionIds == {"sess-123", "sess-adv"}
UserIds == {"user-1"}
RequestConfidences == {64, 65, 85, 120}

\* state_json of a request: plain keys, or raw_text for the extractor.
StateJsons ==
    {[foo |-> Str("bar")], [raw_text |-> Str("I am vegetarian. I live in Pune")],
     [raw_text |-> PyNone]}

\* [s.strip() for s in text.split('.') if s.strip()] on the texts of the model
Sentences(text) ==
    CASE text = "I am vegetarian. I live in Pune" -> <<"I am vegetarian", "I live in Pune">>
      [] OTHER -> <<>>

\* f"s{i}"
SentenceKey(i) == CASE i = 0 -> "s0" [] i = 1 -> "s1" [] OTHER -> "s2"

extract_from_text(text) ==
    LET sentences == Sentences(text)
        keys == {SentenceKey(i - 1) : i \in 1..Len(sentences)}
        index(k) == CHOOSE i \in 1..Len(sentences) : SentenceKey(i - 1) = k
    IN  [state_updates |-> [k \in keys |-> Str(sentences[index(k)])],
         completion_map |-> [k \in keys |-> 0],
         confidence_map |-> [k \in keys |-> 70],
         overall_confidence |-> 70]

\* {**a, **b}
Merged(a, b) == [k \in DOMAIN a \cup DOMAIN b |-> IF k \in DOMAIN b THEN b[k] ELSE a[k]]

\* ConversationState(...) with the defaults of models.py
ConversationState(user_id, session_id, state_json, confidence_map) ==
    [user_id |-> user_id, session_id |-> session_id, state_json |-> state_json,
     completion_map |-> EmptyDict, confidence_map |-> confidence_map, progress_pct |-> 0]

\* The status a confidence maps to with the review band closed above.
StatusOfInclusive(overall_conf) ==
    IF overall_conf > AUTO_CONFIDENCE THEN "auto"
    ELSE IF overall_conf >= REVIEW_CONFIDENCE THEN "review"
    ELSE "clarify"

\* Decide action based on confidence thresholds
StatusOf(overall_conf) ==
    IF overall_conf >= AUTO_CONFIDENCE THEN "auto"
    ELSE IF overall_conf >= REVIEW_CONFIDENCE THEN "review"
    ELSE "clarify"

Ok(op, session_id, body) ==
    [op |-> op, session_id |-> session_id, status_code |-> 200, body |-> body]
Failed(op, session_id, status_code) ==
    [op |-> op, session_id |-> session_id, status_code |-> status_code, body |-> EmptyDict]

UpdateStateRequest(session_id, user_id, state_json, confidence) ==
    [op |-> "update", session_id |-> session_id, user_id |-> user_id,
     state_json |-> state_json, confidence |-> confidence]
AdvanceStateRequest(session_id) == [op |-> "advance", session_id |-> session_id]
GetStateRequest(session_id) == [op |-> "get", session_id |-> session_id]

serviceFrame == <<coreVars, flagVars, botVars, onbVars>>

\* POST /state/update
update_state(session_id, user_id, state_json, confidence) ==
    IF "raw_text" \in DOMAIN state_json /\ ~IsStr(state_json["raw_text"])
    THEN \* extract_from_text(None) raises: the request fails before the store is touched
         /\ response' = Failed("update", session_id, 500)
         /\ UNCHANGED _store
    ELSE
    LET has_payload == "raw_text" \in DOMAIN state_json
        extractor_payload == extract_from_text(state_json["raw_text"].s)
        obj == IF session_id \notin DOMAIN _store
               THEN ConversationState(user_id, session_id, state_json, [last |-> confidence])
               ELSE [_store[session_id] EXCEPT
                       !.state_json = Merged(@, state_json),
                       !.confidence_map = SetItem(@, "last", confidence)]
        merged == IF has_payload
                  THEN [obj EXCEPT
                          !.state_json = Merged(@, extractor_payload.state_updates),
                          !.completion_map = Merged(@, extractor_payload.completion_map),
                          !.confidence_map = Merged(@, extractor_payload.confidence_map)]
                  ELSE obj
        overall_conf == IF has_payload THEN extractor_payload.overall_confidence
                        ELSE confidence
        saved == [merged EXCEPT !.progress_pct = overall_conf]
    IN  /\ _store' = SetItem(_store, session_id, saved)
        /\ response' = Ok("update", session_id,
                          [session_id |-> session_id, status |-> StatusOf(overall_conf),
                           progress_pct |-> saved.progress_pct])

UpdateState ==
    /\ \E session_id \in SessionIds, user_id \in UserIds, state_json \in StateJsons,
          confidence \in RequestConfidences :
            /\ request' = UpdateStateRequest(session_id, user_id, state_json, confidence)
            /\ update_state(session_id, user_id, state_json, confidence)
    /\ UNCHANGED serviceFrame

\* What GET /state/{session_id} answers on a store.
GetResult(store, session_id) ==
    IF session_id \notin DOMAIN store THEN Failed("get", session_id, 404)
    ELSE Ok("get", session_id, store[session_id])

\* GET /state/{session_id}
get_state(session_id) ==
    /\ response' = GetResult(_store, session_id)
    /\ UNCHANGED _store

GetState ==
    /\ \E session_id \in SessionIds :
         request' = GetStateRequest(session_id) /\ get_state(session_id)
    /\ UNCHANGED serviceFrame

\* An advance without the gate at 100 and without the cap.
AdvanceUncapped(session_id) ==
    IF session_id \notin DOMAIN _store
    THEN /\ response' = Failed("advance", session_id, 404)
         /\ UNCHANGED _store
    ELSE LET obj == [_store[session_id] EXCEPT !.progress_pct = @ + 10]
         IN  /\ _store' = SetItem(_store, session_id, obj)
             /\ response' = Ok("advance", session_id,
                               [session_id |-> session_id, progress_pct |-> obj.progress_pct])

\* POST /state/advance
advance_state(session_id) ==
    IF session_id \notin DOMAIN _store
    THEN /\ response' = Failed("advance", session_id, 404)
         /\ UNCHANGED _store
    ELSE IF _store[session_id].progress_pct >= 100
    THEN /\ response' = Ok("advance", session_id,
                           [session_id |-> session_id,
                            progress_pct |-> _store[session_id].progress_pct,
                            status |-> "complete"])
         /\ UNCHANGED _store
    ELSE LET obj == [_store[session_id] EXCEPT !.progress_pct = Min(100, @ + 10)]
         IN  /\ _store' = SetItem(_store, session_id, obj)
             /\ response' = Ok("advance", session_id,
                               [session_id |-> session_id, progress_pct |-> obj.progress_pct])

AdvanceState ==
    /\ \E session_id \in SessionIds :
         request' = AdvanceStateRequest(session_id) /\ advance_state(session_id)
    /\ UNCHANGED serviceFrame

NextService == UpdateState \/ GetState \/ AdvanceState

SpecService == Init /\ [][NextService]_vars

\* C24: update_state on a request whose state_json carries no raw_text
\* answers 'auto' for a confidence of at least 0.85, 'review' for one of at
\* least 0.65 and below 0.85, 'clarify' for one below 0.65; after the call
\* the session is stored, so get_state for that session id answers with the
\* state of that session_id and not with 404.
C24_UpdateStatus ==
    (request # EmptyDict /\ request.op = "update" /\ "raw_text" \notin DOMAIN request.state_json)
    => /\ response.status_code = 200
       /\ response.body.session_id = request.session_id
       /\ response.body.status
            = (IF request.confidence >= 85 THEN "auto"
               ELSE IF request.confidence >= 65 THEN "review" ELSE "clarify")
       /\ GetResult(_store, request.session_id).status_code = 200
       /\ GetResult(_store, request.session_id).body.session_id = request.session_id

\* C24 witness: a session updated without raw_text at confidence 0.85 and
\* then read back with get_state.
C24_Witness ==
    /\ response # EmptyDict
    /\ response.op = "get" /\ response.status_code = 200
    /\ response.body.session_id = "sess-123"
    /\ response.body.state_json = [foo |-> Str("bar")]
    /\ response.body.confidence_map = [last |-> 85]
    /\ response.body.progress_pct = 85

\* C25: advance_state on a stored session with progress_pct below 100 raises
\* progress_pct by exactly 10, capped at 100, and returns it; on a session
\* with progress_pct of 100 or more it answers 'complete' and leaves the
\* stored state as it is; on a session id that was never updated it answers
\* 404 and leaves the store as it is.  So no advance_state call lowers a
\* progress_pct or takes it above 100.
C25_AdvanceBounded ==
    [][request'.op = "advance" =>
        LET session_id == request'.session_id IN
        /\ IF session_id \notin DOMAIN _store
           THEN response'.status_code = 404 /\ _store' = _store
           ELSE IF _store[session_id].progress_pct >= 100
           THEN /\ response'.status_code = 200
                /\ "status" \in DOMAIN response'.body
                /\ response'.body.status = "complete"
                /\ _store' = _store
           ELSE /\ response'.status_code = 200
                /\ _store'[session_id].progress_pct
                     = Min(100, _store[session_id].progress_pct + 10)
                /\ response'.body.progress_pct = _store'[session_id].progress_pct
                /\ _store' = [_store EXCEPT ![session_id].progress_pct
                                              = _store'[session_id].progress_pct]
        /\ DOMAIN _store' = DOMAIN _store
        /\ \A s \in DOMAIN _store :
             /\ _store'[s].progress_pct >= _store[s].progress_pct
             /\ _store[s].progress_pct <= 100 => _store'[s].progress_pct <= 100]_vars

\* C25 witness: a session updated at confidence 0.64 and advanced four
\* times, the last advance capped at 100 (94 + 10), while the other session
\* id was never updated.
C25_Witness ==
    /\ request # EmptyDict /\ request.op = "advance"
    /\ response.status_code = 200
    /\ "status" \notin DOMAIN response.body
    /\ response.body.progress_pct = 100
    /\ _store[request.session_id].confidence_map = [last |-> 64]
    /\ DOMAIN _store = {request.session_id}

(***************************************************************************)
(* services/conversational_controller/feature_flag.py                      *)
(***************************************************************************)

RolloutUsers == {"any-user", "user-1", "user-2", "alice"}

RolloutPcts == {-5, 0, 1, 2, 7, 8, 36, 37, 52, 53, 99, 100, 150}

\* hashlib.sha256(user_id.encode()).hexdigest()[:8], as its two 16-bit halves
Sha256Prefix(user_id) ==
    CASE user_id = "any-user" -> <<34484, 49912>>
      [] user_id = "user-1" -> <<50882, 35300>>
      [] user_id = "user-2" -> <<55595, 27087>>
      [] user_id = "alice" -> <<11224, 1737>>

\* int(h[:8], 16) % 100, with 65536 reduced modulo 100 before multiplying
Bucket(user_id) ==
    LET h == Sha256Prefix(user_id)
    IN  (((h[1] % 100) * (65536 % 100)) + h[2]) % 100

\* A rollout that takes the users whose bucket lies above the percentage.
InRolloutAbove(user_id, pct) ==
    IF pct <= 0 THEN FALSE
    ELSE IF pct >= 100 THEN TRUE
    ELSE Bucket(user_id) > pct

in_rollout(user_id, pct) ==
    IF pct <= 0 THEN FALSE
    ELSE IF pct >= 100 THEN TRUE
    ELSE Bucket(user_id) < pct

flagFrame == <<coreVars, ctrlVars, botVars, onbVars>>

\* settings.FEATURE_ROLLOUT_PCT = pct
SetRolloutPct ==
    /\ \E pct \in RolloutPcts : FEATURE_ROLLOUT_PCT' = pct
    /\ UNCHANGED <<flagFrame, rollout_call, rollout_prev>>

\* in_rollout(user_id)
InRollout ==
    /\ \E user_id \in RolloutUsers :
         rollout_call' = [user_id |-> user_id, pct |-> FEATURE_ROLLOUT_PCT,
                          result |-> in_rollout(user_id, FEATURE_ROLLOUT_PCT)]
    /\ rollout_prev' = rollout_call
    /\ UNCHANGED <<flagFrame, FEATURE_ROLLOUT_PCT>>

NextFlag == SetRolloutPct \/ InRollout

SpecFlag == Init /\ [][NextFlag]_vars

\* C26: in_rollout answers False for every user id when the percentage is 0
\* or less and True for every user id when it is 100 or more; for one user
\* id two calls at the same percentage answer alike, and a user included at
\* a percentage is included at every higher one.
C26_RolloutBounds ==
    rollout_call # EmptyDict =>
        /\ rollout_call.pct <= 0 => ~rollout_call.result
        /\ rollout_call.pct >= 100 => rollout_call.result
        /\ (rollout_prev # EmptyDict /\ rollout_prev.user_id = rollout_call.user_id) =>
             /\ rollout_prev.pct = rollout_call.pct => rollout_prev.result = rollout_call.result
             /\ (rollout_prev.pct < rollout_call.pct /\ rollout_prev.result) => rollout_call.result
             /\ (rollout_call.pct < rollout_prev.pct /\ rollout_call.result) => rollout_prev.result

\* C26 witness: a user left out at 36 percent and included at 37 percent,
\* both strictly between the bounds.
C26_Witness ==
    /\ rollout_call # EmptyDict /\ rollout_prev # EmptyDict
    /\ rollout_prev.user_id = "any-user" /\ rollout_call.user_id = "any-user"
    /\ rollout_prev.pct = 36 /\ ~rollout_prev.result
    /\ rollout_call.pct = 37 /\ rollout_call.result

(***************************************************************************)
(* bot.py: /start, the end of onboarding and handle_message for a user in  *)
(* conversational mode, with the tier_progress row the orchestrator keeps. *)
(* The MVP criteria live in the database function check_mvp_activation;    *)
(* here a profile meets them when it holds every required field.           *)
(***************************************************************************)

ProfileFields == {"city", "religion", "diet"}
RequiredFields == {"city", "religion"}

\* SELECT * FROM check_mvp_activation(user_id)
check_mvp_activation(fields) == [meets_mvp |-> RequiredFields \subseteq fields]

\* JodiDB._update_mvp_status on the row of one user
_update_mvp_status(rows, telegram_id, fields) ==
    SetItem(rows, telegram_id, [mvp_achieved |-> check_mvp_activation(fields).meets_mvp])

\* JodiDB.update_tier_progress: create the row if needed, then the MVP status
update_tier_progress(rows, telegram_id, fields) ==
    _update_mvp_status(rows, telegram_id, fields)

botFrame == <<coreVars, ctrlVars, flagVars, onbVars>>

\* /start
Start(telegram_id) ==
    /\ tier_progress' = update_tier_progress(tier_progress, telegram_id, completed[telegram_id])
    /\ bot_mode' = [bot_mode EXCEPT ![telegram_id] = IF @ = "unknown" THEN "onboarding" ELSE @]
    /\ UNCHANGED <<completed, handled, handoffs>>

\* The onboarding flow stores the answers it collected and sets the phase to
\* CONVERSATIONAL.
FinishOnboarding(telegram_id, answers) ==
    /\ bot_mode[telegram_id] = "onboarding"
    /\ bot_mode' = [bot_mode EXCEPT ![telegram_id] = "conversational"]
    /\ completed' = [completed EXCEPT ![telegram_id] = @ \cup answers]
    /\ UNCHANGED <<tier_progress, handled, handoffs>>

\* handle_message for a user in conversational mode: the orchestrator
\* stores the extracted fields and updates the tier progress, the reply is
\* sent, and the MVP status is checked.
HandleMessage(telegram_id, extracted) ==
    /\ bot_mode[telegram_id] = "conversational"
    /\ LET fields == completed[telegram_id] \cup extracted
           rows == update_tier_progress(tier_progress, telegram_id, fields)
           mvp_status == check_mvp_activation(fields)
           first_time == /\ mvp_status.meets_mvp
                         /\ telegram_id \in DOMAIN rows
                         /\ ~rows[telegram_id].mvp_achieved
           sent == IF first_time THEN {"next_message", "congratulation", "matches"}
                   ELSE {"next_message"}
       IN  /\ completed' = [completed EXCEPT ![telegram_id] = fields]
           /\ tier_progress' = rows
           /\ handoffs' = [handoffs EXCEPT ![telegram_id] = IF first_time THEN @ + 1 ELSE @]
           /\ handled' = [telegram_id |-> telegram_id,
                          met_before |-> check_mvp_activation(completed[telegram_id]).meets_mvp,
                          meets_mvp |-> mvp_status.meets_mvp,
                          sent |-> sent]
    /\ UNCHANGED bot_mode

NextBot ==
    \/ \E telegram_id \in BotUsers : Start(telegram_id) /\ UNCHANGED botFrame
    \/ \E telegram_id \in BotUsers, answers \in SUBSET ProfileFields :
         FinishOnboarding(telegram_id, answers) /\ UNCHANGED botFrame
    \/ \E telegram_id \in BotUsers, extracted \in SUBSET ProfileFields :
         HandleMessage(telegram_id, extracted) /\ UNCHANGED botFrame

SpecBot == Init /\ [][NextBot]_vars

\* C27: when processing a message makes the user's profile meet the MVP
\* criteria for the first time, handle_message sends the congratulation and
\* calls find_and_present_matches for that message, and it does so at most
\* once per user.
C27_FirstTimeHandoff ==
    /\ (handled # EmptyDict /\ ~handled.met_before /\ handled.meets_mvp)
         => {"congratulation", "matches"} \subseteq handled.sent
    /\ \A u \in BotUsers : handoffs[u] <= 1


\* ---------------------------------------------------------------------
\* Onboarding flow (onboarding_flow.py) behind the bot's handlers (bot.py)
\* ---------------------------------------------------------------------
\* One Telegram user.  conversation_state holds the four keys the flow
\* keeps in users.conversation_state; shown is the message whose buttons
\* the user can tap; last_update records the update and whether its
\* handler raised (the library logs the exception and drops the update;
\* what was persisted before the raise stays persisted).

IntroMessages == 7

Phase1Ids == <<"relationship_intent", "religion", "religious_practice_level",
               "partner_religion_preference", "children_intent", "has_children",
               "smoking", "drinking", "dietary_restrictions", "marital_history",
               "relationship_timeline", "education_preference">>

Phase2Ids == <<"first_name", "gender_identity", "sexual_orientation",
               "date_of_birth", "country", "city", "ethnicity">>

Phase2Types == <<"text", "buttons", "buttons", "text", "buttons", "buttons", "text">>

Phase3Ids == <<"work_style", "education_level", "income_bracket", "living_situation",
               "exercise_fitness", "social_energy", "travel_frequency", "pet_ownership",
               "substance_use", "height_cm", "partner_age_min", "partner_age_max",
               "location_flexibility", "caste_community", "family_involvement">>

Phase4Types == <<"message", "photo", "message", "message">>

ReligionOptions == <<"Muslim", "Hindu", "Christian", "Jewish", "Sikh", "Buddhist",
                     "Spiritual", "Atheist", "Other">>

CountryOptions == <<"India", "UAE", "USA", "UK", "Singapore", "Saudi Arabia", "Qatar",
                    "Bahrain", "Kuwait", "Pakistan", "Other">>

\* The value half of options[option_idx]; the screens whose answers no
\* condition reads keep the index as their value.
OptionLabels == <<"option_0", "option_1">>

OptionValue(id, option_idx) ==
    IF id = "religion" THEN ReligionOptions[option_idx + 1]
    ELSE IF id = "country" THEN CountryOptions[option_idx + 1]
    ELSE OptionLabels[option_idx + 1]

\* data.get(key)
DataGet(data, key) == IF key \in DOMAIN data THEN data[key] ELSE "None"

\* The 'condition' lambdas of the conditional screens; TRUE where a screen has none.
Phase1Condition(screen_num, data) ==
    IF Phase1Ids[screen_num + 1] = "religious_practice_level"
    THEN DataGet(data, "religion") \notin {"Spiritual", "Atheist", "Agnostic"}
    ELSE TRUE

Phase3Condition(screen_num, data) ==
    IF Phase3Ids[screen_num + 1] = "caste_community"
    THEN /\ DataGet(data, "country") \in {"India", "Pakistan", "Bangladesh"}
         /\ DataGet(data, "religion") \in {"Hindu", "Muslim", "Sikh", "Jain"}
    ELSE IF Phase3Ids[screen_num + 1] = "family_involvement"
    THEN \/ DataGet(data, "country") \in
              {"India", "Pakistan", "Bangladesh", "UAE", "Saudi Arabia", "Qatar"}
         \/ DataGet(data, "religion") \in {"Muslim", "Hindu", "Sikh"}
    ELSE TRUE

\* What the user may type.
Texts == {"Asha", "15/03/1995", "not-a-date"}

_validate_date(date_string) == date_string = "15/03/1995"

\* get_state on a row without onboarding keys.
FreshState == [phase |-> "INTRO", screen |-> 0, data |-> EmptyDict, photo_count |-> 0]

flow_get_state(cs) == IF cs = NoUser THEN FreshState ELSE cs

is_onboarding_complete(cs) == flow_get_state(cs).phase = "CONVERSATIONAL"

\* A handler in progress: the persisted state, the chat, whether it has
\* raised, and whether the users table has the user's row.
World(cs, sh) ==
    [state |-> flow_get_state(cs), shown |-> sh, raised |-> FALSE, known |-> cs # NoUser]

Raise(w) == [w EXCEPT !.raised = TRUE]

Show(w, kind, screen_num) == [w EXCEPT !.shown = [kind |-> kind, screen |-> screen_num]]

\* set_state(telegram_id, screen=...), (phase=..., screen=...), (data=...), (photo_count=...)
SetScreen(w, screen_num) ==
    IF w.raised THEN w ELSE [w EXCEPT !.state.screen = screen_num]

SetPhase(w, phase, screen_num) ==
    IF w.raised THEN w
    ELSE [w EXCEPT !.state.phase = phase, !.state.screen = screen_num]

SetData(w, data) == IF w.raised THEN w ELSE [w EXCEPT !.state.data = data]

\* Both branches of _show_intro_message work: a button press edits the
\* message, a text message is answered with a new one.
_show_intro_message(w, screen_num) == Show(w, "INTRO", screen_num)

\* update.callback_query is None in a message update, update.message is
\* None in a callback-query update: using the absent one raises.
_start_conversational_mode(w, ctx) ==
    IF ctx # "callback" THEN Raise(w)
    ELSE Raise(SetPhase(Show(w, "CONVERSATIONAL", 0), "CONVERSATIONAL", 0))

_show_phase_4_screen(w, ctx, screen_num) ==
    IF w.raised THEN w
    ELSE IF screen_num < Len(Phase4Types)
    THEN IF Phase4Types[screen_num + 1] = "message"
         THEN Show(w, "PHASE_4", screen_num)
         ELSE IF ctx = "callback" THEN Show(w, "PHASE_4", screen_num) ELSE Raise(w)
    ELSE _start_conversational_mode(w, ctx)

_transition_to_phase_4(w, ctx) ==
    _show_phase_4_screen(SetPhase(w, "PHASE_4", 0), ctx, 0)

RECURSIVE _show_phase_3_screen(_, _, _)
_show_phase_3_screen(w, ctx, screen_num) ==
    IF w.raised THEN w
    ELSE IF screen_num < Len(Phase3Ids)
    THEN IF ~Phase3Condition(screen_num, w.state.data)
         THEN IF screen_num + 1 < Len(Phase3Ids)
              THEN SetScreen(_show_phase_3_screen(w, ctx, screen_num + 1), screen_num + 1)
              ELSE _transition_to_phase_4(w, ctx)
         ELSE Show(w, "PHASE_3", screen_num)
    ELSE _transition_to_phase_4(w, ctx)

_transition_to_phase_3(w, ctx) ==
    IF w.raised THEN w
    ELSE IF ctx # "callback" THEN Raise(w)
    ELSE _show_phase_3_screen(
             SetPhase(Show(w, "transition", 3), "PHASE_3", 0), ctx, 0)

_show_phase_2_screen(w, ctx, screen_num) ==
    IF w.raised THEN w
    ELSE IF screen_num < Len(Phase2Ids)
    THEN IF Phase2Types[screen_num + 1] = "text"
         THEN IF ctx = "message" THEN Show(w, "PHASE_2", screen_num) ELSE Raise(w)
         ELSE Show(w, "PHASE_2", screen_num)
    ELSE _transition_to_phase_3(w, ctx)

_transition_to_phase_2(w, ctx) ==
    IF w.raised THEN w
    ELSE IF ctx # "callback" THEN Raise(w)
    ELSE _show_phase_2_screen(
             SetPhase(Show(w, "transition", 2), "PHASE_2", 0), ctx, 0)

RECURSIVE _show_phase_1_screen(_, _, _)
_show_phase_1_screen(w, ctx, screen_num) ==
    IF w.raised THEN w
    ELSE IF screen_num < Len(Phase1Ids)
    THEN IF ~Phase1Condition(screen_num, w.state.data)
         THEN IF screen_num + 1 < Len(Phase1Ids)
              THEN SetScreen(_show_phase_1_screen(w, ctx, screen_num + 1), screen_num + 1)
              ELSE _transition_to_phase_2(w, ctx)
         ELSE Show(w, "PHASE_1", screen_num)
    ELSE _transition_to_phase_2(w, ctx)

\* `state` is what the calling handler read before anything was written.
_handle_intro(w, ctx, state) ==
    IF state.screen + 1 < IntroMessages
    THEN SetScreen(_show_intro_message(w, state.screen + 1), state.screen + 1)
    ELSE _show_phase_1_screen(SetPhase(w, "PHASE_1", 0), ctx, 0)

\* options[option_idx] exists: a text screen has no options, the religion
\* and country screens have nine and eleven, every other screen at least three.
HasOption(id, option_idx) ==
    IF id \in {"first_name", "date_of_birth", "ethnicity"} THEN FALSE
    ELSE IF id = "religion" THEN option_idx < Len(ReligionOptions)
    ELSE IF id = "country" THEN option_idx < Len(CountryOptions)
    ELSE option_idx < 3

\* The part of _handle_option_selection the three button phases share:
\* record the answer under the screen the cursor names.
StoreAnswer(w, ids, option_idx) ==
    SetData(w, SetItem(w.state.data, ids[w.state.screen + 1],
                       OptionValue(ids[w.state.screen + 1], option_idx)))

\* callback_data is "opt_<option_idx>"; state is read once, on entry.
_handle_option_selection(w, option_idx) ==
    IF w.state.phase = "PHASE_1"
    THEN IF ~(w.state.screen < Len(Phase1Ids)
              /\ HasOption(Phase1Ids[w.state.screen + 1], option_idx))
         THEN Raise(w)
         ELSE IF w.state.screen + 1 < Len(Phase1Ids)
         THEN SetScreen(_show_phase_1_screen(StoreAnswer(w, Phase1Ids, option_idx),
                                             "callback", w.state.screen + 1),
                        w.state.screen + 1)
         ELSE _transition_to_phase_2(StoreAnswer(w, Phase1Ids, option_idx), "callback")
    ELSE IF w.state.phase = "PHASE_2"
    THEN IF ~(w.state.screen < Len(Phase2Ids)
              /\ HasOption(Phase2Ids[w.state.screen + 1], option_idx))
         THEN Raise(w)
         ELSE IF w.state.screen + 1 < Len(Phase2Ids)
         THEN SetScreen(_show_phase_2_screen(StoreAnswer(w, Phase2Ids, option_idx),
                                             "callback", w.state.screen + 1),
                        w.state.screen + 1)
         ELSE _transition_to_phase_3(StoreAnswer(w, Phase2Ids, option_idx), "callback")
    ELSE IF w.state.phase = "PHASE_3"
    THEN IF ~(w.state.screen < Len(Phase3Ids)
              /\ HasOption(Phase3Ids[w.state.screen + 1], option_idx))
         THEN Raise(w)
         ELSE IF w.state.screen + 1 < Len(Phase3Ids)
         THEN SetScreen(_show_phase_3_screen(StoreAnswer(w, Phase3Ids, option_idx),
                                             "callback", w.state.screen + 1),
                        w.state.screen + 1)
         ELSE _transition_to_phase_4(StoreAnswer(w, Phase3Ids, option_idx), "callback")
    \* PHASE_4: the branch compares callback_data, which starts with "opt_"
    \* here, with 'add_photo', 'photos_done', 'phase4_...' and 'later'.
    ELSE w

\* callback: [name |-> the callback_data up to its number, n |-> the number]
handle_callback(w, callback) ==
    IF callback.name = "intro" THEN _handle_intro(w, "callback", w.state)
    ELSE IF callback.name = "resume_onboarding"
    THEN IF w.state.phase = "INTRO" THEN _show_intro_message(w, w.state.screen)
         ELSE IF w.state.phase = "PHASE_1"
         THEN _show_phase_1_screen(w, "callback", w.state.screen)
         ELSE IF w.state.phase = "PHASE_2"
         THEN _show_phase_2_screen(w, "callback", w.state.screen)
         ELSE IF w.state.phase = "PHASE_3"
         THEN _show_phase_3_screen(w, "callback", w.state.screen)
         ELSE IF w.state.phase = "PHASE_4"
         THEN _show_phase_4_screen(w, "callback", w.state.screen)
         ELSE w
    ELSE IF callback.name = "opt" THEN _handle_option_selection(w, callback.n)
    ELSE IF callback.name = "start_conversational"
    THEN _start_conversational_mode(w, "callback")
    ELSE w

\* bot.py: callbacks of a user still onboarding go to the flow, the rest
\* to the match handlers, which leave the onboarding state alone.
handle_callback_query(w, callback) ==
    IF ~is_onboarding_complete(w.state) THEN handle_callback(w, callback) ELSE w

_handle_photo_upload(w) ==
    Show([w EXCEPT !.state.photo_count = w.state.photo_count + 1], "photo_prompt", 0)

\* message: [text |-> what was typed, or "None" for a photo; photo |-> a photo is attached]
_handle_phase_4(w, message) ==
    IF message.photo THEN _handle_photo_upload(w) ELSE w

\* user_input.strip() leaves every member of Texts as it is.
_handle_phase_2(w, message) ==
    IF ~(w.state.screen < Len(Phase2Ids)) THEN Raise(w)
    ELSE IF Phase2Types[w.state.screen + 1] = "text" /\ message.text # "None"
    THEN IF Phase2Ids[w.state.screen + 1] = "date_of_birth" /\ ~_validate_date(message.text)
         THEN w
         ELSE IF w.state.screen + 1 < Len(Phase2Ids)
         THEN SetScreen(
                  _show_phase_2_screen(
                      SetData(w, SetItem(w.state.data, Phase2Ids[w.state.screen + 1],
                                         message.text)),
                      "message", w.state.screen + 1),
                  w.state.screen + 1)
         ELSE _transition_to_phase_3(
                  SetData(w, SetItem(w.state.data, Phase2Ids[w.state.screen + 1],
                                     message.text)),
                  "message")
    ELSE w

\* OnboardingFlow.handle_message; in the button phases a text is answered
\* with "Just tap one of the options above" and nothing else happens.
flow_handle_message(w, message) ==
    IF w.state.phase = "INTRO" THEN _handle_intro(w, "message", w.state)
    ELSE IF w.state.phase = "PHASE_2" THEN _handle_phase_2(w, message)
    ELSE IF w.state.phase = "PHASE_4" THEN _handle_phase_4(w, message)
    ELSE w

start_onboarding(w) ==
    IF w.state.phase = "CONVERSATIONAL" THEN Show(w, "welcome_back", 0)
    ELSE IF w.state.phase # "INTRO" \/ w.state.screen > 0 THEN Show(w, "resume", 0)
    ELSE SetPhase(_show_intro_message(w, 0), "INTRO", 0)

\* bot.py start: the row is created if missing, then the flow starts or resumes.
start(w) == start_onboarding([w EXCEPT !.known = TRUE])

\* bot.py handle_message: user_message = update.message.text is None for
\* a photo, and the first statement slices it.  A text of a user the
\* database does not know is answered like /start; a user who finished
\* onboarding talks to the orchestrator (ProcessUserMessage).
bot_handle_message(w, message) ==
    IF message.text = "None" THEN Raise(w)
    ELSE IF ~w.known THEN start(w)
    ELSE IF ~is_onboarding_complete(w.state) THEN flow_handle_message(w, message)
    ELSE w

\* The callback_data of the buttons under the displayed message.
OfferedOptions(id) ==
    IF id = "religion" THEN {1, 7}
    ELSE IF id \in {"relationship_intent", "gender_identity"} THEN {0, 1}
    ELSE {0}

Callback(name, n) == [name |-> name, n |-> n]

Buttons(sh) ==
    IF sh.kind = "INTRO" THEN {Callback("intro", sh.screen)}
    ELSE IF sh.kind = "resume" THEN {Callback("resume_onboarding", 0)}
    ELSE IF sh.kind = "PHASE_1"
    THEN {Callback("opt", i) : i \in OfferedOptions(Phase1Ids[sh.screen + 1])}
    ELSE IF sh.kind = "PHASE_2" /\ Phase2Types[sh.screen + 1] = "buttons"
    THEN {Callback("opt", i) : i \in OfferedOptions(Phase2Ids[sh.screen + 1])}
    ELSE IF sh.kind = "PHASE_3"
    THEN {Callback("opt", i) : i \in OfferedOptions(Phase3Ids[sh.screen + 1])}
    ELSE IF sh.kind = "PHASE_4" /\ sh.screen = 2 THEN {Callback("phase4", 2)}
    ELSE IF sh.kind = "PHASE_4" /\ sh.screen = 3
    THEN {Callback("start_conversational", 0), Callback("later", 0)}
    ELSE IF sh.kind = "photo_prompt"
    THEN {Callback("add_photo", 0), Callback("photos_done", 0)}
    ELSE {}

onbFrame == <<coreVars, ctrlVars, flagVars, botVars>>

\* The handler's effects become the next state.
Handled(w, update) ==
    /\ conversation_state' = IF w.known THEN w.state ELSE NoUser
    /\ shown' = w.shown
    /\ last_update' = [update |-> update, raised |-> w.raised,
                       before |-> conversation_state, seen |-> shown]
    /\ UNCHANGED onbFrame

StartCommand ==
    Handled(start(World(conversation_state, shown)), [kind |-> "start"])

ButtonPress ==
    /\ conversation_state # NoUser
    /\ \E callback \in Buttons(shown) :
         Handled(handle_callback_query(World(conversation_state, shown), callback),
                 [kind |-> "callback", callback |-> callback])

TextMessage ==
    \E text \in Texts :
        Handled(bot_handle_message(World(conversation_state, shown),
                                   [text |-> text, photo |-> FALSE]),
                [kind |-> "text", text |-> text])

PhotoMessage ==
    Handled(bot_handle_message(World(conversation_state, shown),
                               [text |-> "None", photo |-> TRUE]),
            [kind |-> "photo"])

NextOnboarding ==
    \/ StartCommand
    \/ ButtonPress
    \/ TextMessage
    \/ PhotoMessage

SpecOnboarding == Init /\ [][NextOnboarding]_vars

\* The last update was a tap on an option button while the cursor was in `phases`.
OptionSelectedIn(phases) ==
    /\ last_update # EmptyDict
    /\ last_update.update.kind = "callback"
    /\ last_update.update.callback.name = "opt"
    /\ last_update.before.phase \in phases

\* C28: after every option selection in Phase 1 or Phase 3 whose handler
\* ran to its end, conditional screens skipped or not, the persisted
\* (phase, screen) pair names the screen the chat displays.
C28_CursorNamesShownScreen ==
    (OptionSelectedIn({"PHASE_1", "PHASE_3"}) /\ ~last_update.raised)
        => /\ shown.kind = conversation_state.phase
           /\ shown.screen = conversation_state.screen

\* The last update answered what the chat displayed: a tap on a button
\* that moves on, or a text typed while a text question was displayed.
Answered ==
    /\ last_update # EmptyDict
    /\ \/ /\ last_update.update.kind = "callback"
          /\ last_update.update.callback.name \in
                 {"intro", "opt", "photos_done", "phase4", "start_conversational"}
       \/ /\ last_update.update.kind = "text"
          /\ last_update.seen.kind = "PHASE_2"
          /\ Phase2Types[last_update.seen.screen + 1] = "text"
          /\ last_update.update.text # "not-a-date"

Cursor(cs) == <<cs.phase, cs.screen>>

\* C29: every answer to the displayed prompt is handled to its end and
\* moves the cursor on, so that a user who keeps answering walks through
\* INTRO and PHASE_1 to PHASE_4 into CONVERSATIONAL.
C29_AnswersAdvance ==
    Answered => /\ ~last_update.raised
                /\ Cursor(conversation_state) # Cursor(last_update.before)

\* Where the walk ends: no sequence of updates takes the cursor out of PHASE_2.
StuckBeforePhase3 ==
    conversation_state.phase \in {"NoUser", "INTRO", "PHASE_1", "PHASE_2"}

\* In PHASE_2 the cursor never passes the sexual_orientation screen.
StuckAtOrientation ==
    conversation_state.phase = "PHASE_2" => conversation_state.screen <= 2

\* ---------------------------------------------------------------------
\* Symmetry of the scorer
\* ---------------------------------------------------------------------
\* Pairs that differ in what each sub-score reads: weights, flexibility
\* flags, ages, diets, occupations, tags, and attributes that are missing
\* or None on one side only.
InitSymmetry ==
    /\ MergeIdle
    /\ ConcIdle
    /\ OtherIdle
    /\ \/ profile_a \in LifestyleProfiles /\ profile_b \in LifestyleProfiles
       \/ /\ profile_a \in {p \in AgeProfiles : DemoOf(p).d["age"].n \in {25, 31}}
          /\ profile_b \in AgeProfiles
       \/ /\ profile_a \in {p \in LocationProfiles :
                               Get(DemoOf(p), "location", PyNone) = Str("Canberra, Australia")}
          /\ profile_b \in LocationProfiles
       \/ /\ profile_a \in {p \in CulturalProfiles :
                               Get(DemoOf(p), "caste", PyNone) = Str("Patel")}
          /\ profile_b \in CulturalProfiles
       \/ /\ profile_a \in {p \in WeightProfiles :
                               /\ DemoOf(p).d["age"] = Num(28)
                               /\ DemoOf(p).d["vegetarian"] = Bool(TRUE)
                               /\ DemoOf(p).d["location"] = Str("Canberra, Australia")}
          /\ profile_b \in WeightProfiles
       \/ profile_a \in SparseProfiles /\ profile_b \in BaseProfiles
    /\ profile_c = Dict(EmptyDict)
    /\ result = NotCalled
    /\ result_c = NotCalled

SpecSymmetry == InitSymmetry /\ [][NextScore]_vars

\* C30: calculate_match_score(a, b) and calculate_match_score(b, a) return
\* the same total and the same breakdown, and one raises exactly when the
\* other does.
C30_ScoreSymmetric ==
    Scored => result = calculate_match_score(profile_b, profile_a)

\* The two profiles give the diet different weights and the larger one is
\* what the shared diet earns, whichever profile comes first.
C30_Witness ==
    /\ Scored /\ ~result.raised
    /\ profile_a \in LifestyleProfiles
    /\ WeightOn(profile_a, "vegetarian") = 500
    /\ WeightOn(profile_b, "vegetarian") = 1000
    /\ "vegetarian_match" \in DOMAIN result.breakdown["lifestyle"]
    /\ result.breakdown["lifestyle"]["vegetarian_match"] = 10000
    /\ result = calculate_match_score(profile_b, profile_a)
====
